---- MODULE Spec2Model ----
(***************************************************************************)
(* USB HID to BLE bridge: device registry, endpoint sync codec, report     *)
(* translation, the bridge poll loop and the reconnect state machines,     *)
(* modelled from src/APP/usb_bridge.c, usb_device_manager.c,               *)
(* usb_host_common.c and error_recovery.c.                                 *)
(***************************************************************************)
EXTENDS Integers, Sequences, FiniteSets, TLC

VARIABLES
    g_usb_devices,          \* usb_device_manager.c: slot table
    g_active_device_count,  \* usb_device_manager.c: number of active slots
    kbd_send_pending,       \* usb_bridge.c: pending-retry flag
    last_kbd_report,        \* usb_bridge.c: report re-sent by the retry gate
    Bridge_NewDevFlag,      \* usb_bridge.c: new device pending
    Var_NizMouse_Record,    \* usb_bridge.c: driver-external endpoint token
    g_error_stats,          \* error_recovery.c: ErrorStats_t
    g_reconnect_state,      \* error_recovery.c: ReconnectState_t
    obs,                    \* what the last call did (history)
    polls,                  \* number of USB_Bridge_Poll calls so far (history)
    usb_fail_run,           \* failed USB reconnect actions since Start (history)
    wd_elapsed,             \* ms given to the enabled watchdog since its last
                            \* reset (history)
    dec,                    \* one call of a report translator: its arguments,
                            \* the memory at out_buf, and whether it has run
    g_ota_state,            \* ota_manager.c: OtaStateInfo_t
    g_firmware_header,      \* ota_manager.c: FirmwareHeader_t
    ota_obs                 \* what the last OtaManager call was given and
                            \* returned (history)

vars == <<g_usb_devices, g_active_device_count, kbd_send_pending,
          last_kbd_report, Bridge_NewDevFlag, Var_NizMouse_Record,
          g_error_stats, g_reconnect_state, obs, polls, usb_fail_run,
          wd_elapsed, dec, g_ota_state, g_firmware_header, ota_obs>>

----------------------------------------------------------------------------
(* Bounds of the model *)

MaxPolls == 3
MaxAttempts == 4
MaxStat == 1
MaxRegPolls == 1
MaxSetBits == 7

(* Program constants *)

MAX_USB_DEVICES == 4
MAX_REPORT_SIZE == 8
MAX_PACKET_SIZE == 16
NIZ_KEY_OFFSET == 4
NIZ_MOUSE_ENDP == 132
DEV_TYPE_KEYBOARD == 0
DEV_TYPE_MOUSE == 1
USB_ENDP_ADDR_MASK == 127
USB_ENDP_SYNC_MASK == 128
NOT_FOUND == 255
SEARCH_NONE == 65535
USB_INITIAL_DELAY == 1000
USB_BACKOFF_DELAY == 2000
BLE_INITIAL_DELAY == 1000
BLE_BACKOFF_DELAY == 3000
USB_MAX_RETRY == 3
BLE_MAX_RETRY == 5
BRIDGE_TICK_MS == 1

Slots == 0 .. (MAX_USB_DEVICES - 1)

----------------------------------------------------------------------------
(* Small helpers on byte arrays; C index i is element i + 1 of a sequence *)

Zeros(n) == [k \in 1 .. n |-> 0]

At(buf, i) == buf[i + 1]

\* memcpy(dst, src + off, n): the first n bytes of dst are replaced
Memcpy(dst, src, off, n) ==
    [k \in 1 .. Len(dst) |-> IF k <= n THEN src[k + off] ELSE dst[k]]

----------------------------------------------------------------------------
(* Endpoint sync codec, usb_host_common.c *)

\* endp_addr & 0x7F
Endpoint_GetAddr(endp_addr) == endp_addr % USB_ENDP_SYNC_MASK

\* (endp_addr & 0x80) != 0
Endpoint_GetToggleFlag(endp_addr) == endp_addr >= USB_ENDP_SYNC_MASK

Endpoint_SyncToggle_NoClear(endp_addr) ==
    IF endp_addr >= USB_ENDP_SYNC_MASK THEN endp_addr
    ELSE endp_addr + USB_ENDP_SYNC_MASK

\* endp_addr ^ 0x80
Endpoint_SyncToggle(endp_addr) ==
    IF endp_addr >= USB_ENDP_SYNC_MASK
    THEN endp_addr - USB_ENDP_SYNC_MASK
    ELSE endp_addr + USB_ENDP_SYNC_MASK

IsEndpointValid(endp_addr) == Endpoint_GetAddr(endp_addr) # 0

----------------------------------------------------------------------------
(* Device registry, usb_device_manager.c *)

ZeroDevice ==
    [dev_addr |-> 0, dev_type |-> 0, endpoint |-> 0, sync_toggle |-> 0,
     report_buffer |-> Zeros(MAX_REPORT_SIZE), is_connected |-> 0,
     is_valid |-> 0]

\* The registry as one value: the slot table and the active count
Registry(devs, cnt) == [devs |-> devs, count |-> cnt]

UsbDeviceManager_Init == Registry([i \in Slots |-> ZeroDevice], 0)

UsbDeviceManager_IsValid(reg, dev_index) ==
    IF dev_index >= MAX_USB_DEVICES THEN 0
    ELSE reg.devs[dev_index].is_valid

\* The loop of AddDevice: first slot with is_valid = 0, or 0xFF
FreeSlot_Overwrite(reg) ==
    IF \E i \in Slots : reg.devs[i].is_valid = 0
    THEN CHOOSE i \in Slots : reg.devs[i].is_valid = 0 /\
                              \A j \in Slots : reg.devs[j].is_valid = 0 => i <= j
    ELSE 0

FreeSlot(reg) ==
    IF \E i \in Slots : reg.devs[i].is_valid = 0
    THEN CHOOSE i \in Slots : reg.devs[i].is_valid = 0 /\
                              \A j \in Slots : reg.devs[j].is_valid = 0 => i <= j
    ELSE NOT_FOUND

\* Returns <<registry, index>>
UsbDeviceManager_AddDevice(reg, dev_addr, dev_type, endpoint) ==
    LET i == FreeSlot(reg) IN
    IF i = NOT_FOUND THEN <<reg, NOT_FOUND>>
    ELSE <<Registry([reg.devs EXCEPT ![i] =
                        [dev_addr |-> dev_addr, dev_type |-> dev_type,
                         endpoint |-> endpoint, sync_toggle |-> 0,
                         report_buffer |-> Zeros(MAX_REPORT_SIZE),
                         is_connected |-> 1, is_valid |-> 1]],
                    (reg.count + 1) % 256), i>>

\* RemoveDevice that clears the two flags and leaves the other fields
RemoveDevice_FlagsOnly(reg, dev_index) ==
    IF dev_index >= MAX_USB_DEVICES THEN reg
    ELSE IF reg.devs[dev_index].is_valid # 0
    THEN Registry([reg.devs EXCEPT ![dev_index].is_valid = 0,
                                   ![dev_index].is_connected = 0],
                  IF reg.count > 0 THEN reg.count - 1 ELSE reg.count)
    ELSE reg

RemoveDevice_NoDecrement(reg, dev_index) ==
    IF dev_index >= MAX_USB_DEVICES THEN reg
    ELSE IF reg.devs[dev_index].is_valid # 0
    THEN Registry([reg.devs EXCEPT ![dev_index] = ZeroDevice], reg.count)
    ELSE reg

RemoveDevice_NoValidCheck(reg, dev_index) ==
    IF dev_index >= MAX_USB_DEVICES THEN reg
    ELSE Registry([reg.devs EXCEPT ![dev_index] = ZeroDevice],
                  IF reg.count > 0 THEN reg.count - 1 ELSE reg.count)

UsbDeviceManager_RemoveDevice(reg, dev_index) ==
    IF dev_index >= MAX_USB_DEVICES THEN reg
    ELSE IF reg.devs[dev_index].is_valid # 0
    THEN Registry([reg.devs EXCEPT ![dev_index] = ZeroDevice],
                  IF reg.count > 0 THEN reg.count - 1 ELSE reg.count)
    ELSE reg

UsbDeviceManager_FindDeviceByType(reg, dev_type) ==
    IF \E i \in Slots : reg.devs[i].is_valid # 0 /\ reg.devs[i].dev_type = dev_type
    THEN CHOOSE i \in Slots :
            /\ reg.devs[i].is_valid # 0 /\ reg.devs[i].dev_type = dev_type
            /\ \A j \in Slots :
                  (reg.devs[j].is_valid # 0 /\ reg.devs[j].dev_type = dev_type)
                  => i <= j
    ELSE NOT_FOUND

\* report is an array of at least len bytes
UsbDeviceManager_UpdateReport(reg, dev_index, report, len) ==
    IF dev_index >= MAX_USB_DEVICES \/ len > 8 THEN reg
    ELSE IF reg.devs[dev_index].is_valid # 0
    THEN Registry([reg.devs EXCEPT ![dev_index].report_buffer =
                        Memcpy(@, report, 0, len)], reg.count)
    ELSE reg

----------------------------------------------------------------------------
(* Error statistics and reconnect state, error_recovery.c *)

StatNames ==
    {"usb_connect_count", "usb_disconnect_count", "usb_enum_fail_count",
     "usb_comm_fail_count", "ble_connect_count", "ble_disconnect_count",
     "ble_auth_fail_count", "ble_comm_fail_count", "watchdog_timeout_count",
     "reset_count", "usb_reconnect_retry", "ble_reconnect_retry"}

\* memset(&g_error_stats, 0, ...)
ErrorStats_Init == [n \in StatNames |-> 0]

\* counter++ on a uint32_t; the counters stay far below 2^32 here
StatInc(stats, n) == [stats EXCEPT ![n] = @ + 1]

\* static initialisation: g_reconnect_state = {0}
ReconnectZero ==
    [usb_reconnect_enabled |-> 0, usb_reconnect_state |-> 0,
     usb_reconnect_delay |-> 0, usb_reconnect_max_retry |-> 0,
     usb_reconnect_retry |-> 0,
     ble_reconnect_enabled |-> 0, ble_reconnect_state |-> 0,
     ble_reconnect_delay |-> 0, ble_reconnect_max_retry |-> 0,
     ble_reconnect_retry |-> 0,
     watchdog_enabled |-> 0, watchdog_timeout |-> 0, watchdog_safe_mode |-> 0]

USBReconnect_Init(rc) ==
    [rc EXCEPT !.usb_reconnect_enabled = 1, !.usb_reconnect_state = 0,
               !.usb_reconnect_delay = 0,
               !.usb_reconnect_max_retry = USB_MAX_RETRY,
               !.usb_reconnect_retry = 0]

BLEReconnect_Init(rc) ==
    [rc EXCEPT !.ble_reconnect_enabled = 1, !.ble_reconnect_state = 0,
               !.ble_reconnect_delay = 0,
               !.ble_reconnect_max_retry = BLE_MAX_RETRY,
               !.ble_reconnect_retry = 0]

----------------------------------------------------------------------------
(* The state a handler works on, threaded through its steps:                *)
(* reg, pend, last, newdev, niz, stats, rc are the program's globals and o  *)
(* is the record of what the handler has done so far.                       *)

NoTxn == [i \in Slots |-> "none"]

\* A direct USB_Bridge_ProcessDevice call: its slot, the receive length it
\* read, whether it called a BLE send, and what it returned
NoIn == [slot |-> -1, len |-> -1, ble |-> FALSE, ret |-> -1]

ObsOf(op) ==
    [op |-> op, arg |-> -1, ret |-> -1, retried |-> FALSE, gated |-> FALSE,
     reinit |-> 0, txn |-> NoTxn, tok |-> [i \in Slots |-> 0], polled |-> {},
     kbdFail |-> FALSE,
     mouseFail |-> FALSE, inits |-> 0, started |-> FALSE, usbAct |-> "none",
     bleAct |-> "none", wdTick |-> 0, wdReset |-> FALSE, wdRec |-> 0,
     log |-> <<>>, evictAll |-> FALSE, evicted |-> {},
     edge |-> "none", lastIn |-> NoIn, dropped |-> 0]

\* The handler's record with one more step <<name, slot>> in its log
Logged(S, name, slot) == [S EXCEPT !.o.log = Append(@, <<name, slot>>)]

Machine(reg, pend, last, newdev, niz, stats, rc, o) ==
    [reg |-> reg, pend |-> pend, last |-> last, newdev |-> newdev,
     niz |-> niz, stats |-> stats, rc |-> rc, o |-> o]

\* The globals as the handler finds them, with a fresh record for this call
Enter(op) ==
    Machine(Registry(g_usb_devices, g_active_device_count), kbd_send_pending,
            last_kbd_report, Bridge_NewDevFlag, Var_NizMouse_Record,
            g_error_stats, g_reconnect_state, ObsOf(op))

\* The globals as the handler leaves them
Leave(S) ==
    /\ g_usb_devices' = S.reg.devs
    /\ g_active_device_count' = S.reg.count
    /\ kbd_send_pending' = S.pend
    /\ last_kbd_report' = S.last
    /\ Bridge_NewDevFlag' = S.newdev
    /\ Var_NizMouse_Record' = S.niz
    /\ g_error_stats' = S.stats
    /\ g_reconnect_state' = S.rc
    /\ obs' = S.o
    /\ wd_elapsed' = IF S.o.wdReset THEN 0 ELSE wd_elapsed + S.o.wdTick
    /\ dec' = dec
    /\ UNCHANGED <<g_ota_state, g_firmware_header, ota_obs>>

\* USB_Bridge_Init that leaves the registry as it is
USB_Bridge_Init_KeepRegistry(S) ==
    [S EXCEPT !.newdev = 0, !.pend = 0,
              !.niz = NIZ_MOUSE_ENDP % USB_ENDP_SYNC_MASK,
              !.stats = ErrorStats_Init,
              !.rc = BLEReconnect_Init(USBReconnect_Init(S.rc)),
              !.o = [S.o EXCEPT !.inits = @ + 1]]

\* USB_Bridge_Init: the bridge's globals, the statistics, both reconnect
\* instances and the registry are re-initialised; last_kbd_report and the
\* watchdog fields are not written
\* (o.dropped counts the registered devices the call discards)
USB_Bridge_Init(S) ==
    [S EXCEPT !.newdev = 0, !.pend = 0,
              !.niz = NIZ_MOUSE_ENDP % USB_ENDP_SYNC_MASK,
              !.stats = ErrorStats_Init,
              !.rc = BLEReconnect_Init(USBReconnect_Init(S.rc)),
              !.reg = UsbDeviceManager_Init,
              !.o = [S.o EXCEPT !.inits = @ + 1,
                                !.dropped = @ + S.reg.count]]

----------------------------------------------------------------------------
(* OTA manager, ota_manager.c *)

OTA_STATE_IDLE == 0
OTA_STATE_CHECKING == 1
OTA_STATE_DOWNLOADING == 2
OTA_STATE_VERIFYING == 3
OTA_STATE_UPDATING == 4
OTA_STATE_COMPLETE == 5
OTA_STATE_ERROR == 6

OTA_MAGIC_NUMBER == 1128809528   \* 0x43483538
OTA_MAX_SIZE == 65536            \* 0x10000
FIRMWARE_HEADER_SIZE == 36       \* sizeof(FirmwareHeader_t), packed

\* memset(&g_ota_state, 0, sizeof(OtaStateInfo_t)); the data buffer, which no
\* function of ota_manager.c writes otherwise, is left out
OtaStateZero ==
    [state |-> 0, total_size |-> 0, received_size |-> 0, crc32 |-> 0,
     buffer_pos |-> 0]

\* memset(&g_firmware_header, 0, sizeof(FirmwareHeader_t))
FirmwareHeaderZero ==
    [magic |-> 0, version |-> 0, build |-> 0, size |-> 0, crc32 |-> 0,
     timestamp |-> 0]

\* Little-endian fields of the packed header as memcpy lays them out
U16LE(data, off) == At(data, off) + 256 * At(data, off + 1)

U32LE(data, off) ==
    At(data, off) + 256 * At(data, off + 1) + 65536 * At(data, off + 2)
    + 16777216 * At(data, off + 3)

\* memcpy(&g_firmware_header, data, sizeof(FirmwareHeader_t))
HeaderOf(data) ==
    [magic |-> U32LE(data, 0), version |-> U16LE(data, 4),
     build |-> U16LE(data, 6), size |-> U32LE(data, 8),
     crc32 |-> U32LE(data, 12), timestamp |-> U32LE(data, 16)]

\* The OTA globals and the value the function returns
Ota(st, hdr, ret) == [st |-> st, hdr |-> hdr, ret |-> ret]

OtaManager_Init ==
    Ota([OtaStateZero EXCEPT !.state = OTA_STATE_IDLE], FirmwareHeaderZero, 0)

\* StartUpdate that does not test the state
OtaManager_StartUpdate_AnyState(O, total_size, crc32) ==
    IF total_size = 0 \/ total_size > OTA_MAX_SIZE THEN [O EXCEPT !.ret = 1]
    ELSE Ota([OtaStateZero EXCEPT !.state = OTA_STATE_CHECKING,
                                  !.total_size = total_size,
                                  !.crc32 = crc32], O.hdr, 0)

OtaManager_StartUpdate_Below64K(O, total_size, crc32) ==
    IF total_size = 0 \/ total_size >= OTA_MAX_SIZE THEN [O EXCEPT !.ret = 1]
    ELSE IF O.st.state # OTA_STATE_IDLE THEN [O EXCEPT !.ret = 1]
    ELSE Ota([OtaStateZero EXCEPT !.state = OTA_STATE_CHECKING,
                                  !.total_size = total_size,
                                  !.crc32 = crc32], O.hdr, 0)

\* ReceiveData that also accepts data in the Checking state
OtaManager_ReceiveData_FromChecking(O, data, length) ==
    IF data.null \/ length = 0 THEN [O EXCEPT !.ret = 1]
    ELSE IF O.st.state \notin {OTA_STATE_CHECKING, OTA_STATE_DOWNLOADING}
    THEN [O EXCEPT !.ret = 1]
    ELSE IF O.st.received_size + length > O.st.total_size
    THEN [O EXCEPT !.ret = 1]
    ELSE LET withHeader == O.st.received_size = 0
                           /\ length >= FIRMWARE_HEADER_SIZE
             hdr == IF withHeader THEN HeaderOf(data.bytes) ELSE O.hdr
             H == [O EXCEPT !.hdr = hdr]
         IN  IF withHeader /\ (\/ hdr.magic # OTA_MAGIC_NUMBER
                               \/ hdr.size # O.st.total_size
                               \/ hdr.crc32 # O.st.crc32)
             THEN [H EXCEPT !.st.state = OTA_STATE_ERROR, !.ret = 1]
             ELSE [H EXCEPT !.st.state = IF withHeader
                                         THEN OTA_STATE_DOWNLOADING ELSE @,
                            !.st.received_size = @ + length,
                            !.ret = 0]

OtaManager_StartUpdate(O, total_size, crc32) ==
    IF total_size = 0 \/ total_size > OTA_MAX_SIZE THEN [O EXCEPT !.ret = 1]
    ELSE IF O.st.state # OTA_STATE_IDLE THEN [O EXCEPT !.ret = 1]
    ELSE Ota([OtaStateZero EXCEPT !.state = OTA_STATE_CHECKING,
                                  !.total_size = total_size,
                                  !.crc32 = crc32], O.hdr, 0)

OtaManager_ReceiveData(O, data, length) ==
    IF data.null \/ length = 0 THEN [O EXCEPT !.ret = 1]
    ELSE IF O.st.state # OTA_STATE_DOWNLOADING THEN [O EXCEPT !.ret = 1]
    ELSE IF O.st.received_size + length > O.st.total_size
    THEN [O EXCEPT !.ret = 1]
    ELSE LET withHeader == O.st.received_size = 0
                           /\ length >= FIRMWARE_HEADER_SIZE
             hdr == IF withHeader THEN HeaderOf(data.bytes) ELSE O.hdr
             H == [O EXCEPT !.hdr = hdr]
         IN  IF withHeader /\ (\/ hdr.magic # OTA_MAGIC_NUMBER
                               \/ hdr.size # O.st.total_size
                               \/ hdr.crc32 # O.st.crc32)
             THEN [H EXCEPT !.st.state = OTA_STATE_ERROR, !.ret = 1]
             ELSE [H EXCEPT !.st.state = IF withHeader
                                         THEN OTA_STATE_DOWNLOADING ELSE @,
                            !.st.received_size = @ + length,
                            !.ret = 0]

OtaManager_CompleteUpdate(O) ==
    IF O.st.state # OTA_STATE_DOWNLOADING THEN [O EXCEPT !.ret = 1]
    ELSE IF O.st.received_size # O.st.total_size
    THEN [O EXCEPT !.st.state = OTA_STATE_ERROR, !.ret = 1]
    ELSE [O EXCEPT !.st.state = OTA_STATE_COMPLETE, !.ret = 0]

OtaManager_CancelUpdate(O) ==
    IF O.st.state # OTA_STATE_IDLE
    THEN [O EXCEPT !.st = [OtaStateZero EXCEPT !.state = OTA_STATE_IDLE],
                   !.ret = 0]
    ELSE [O EXCEPT !.ret = 0]

OtaManager_GetState(st) == st.state

OtaManager_GetProgress(st) == st.received_size

OtaManager_IsUpdating(st) ==
    IF st.state # OTA_STATE_IDLE /\ st.state # OTA_STATE_COMPLETE
       /\ st.state # OTA_STATE_ERROR
    THEN 1 ELSE 0

\* The argument data: a null pointer, or a pointer to bytes
NullData == [null |-> TRUE, bytes |-> << >>]

DataAt(bytes) == [null |-> FALSE, bytes |-> bytes]

\* No OtaManager function has been called
NoOtaCall ==
    [op |-> "none", ret |-> 0, total_size |-> 0, crc32 |-> 0,
     data |-> NullData, length |-> 0]

----------------------------------------------------------------------------
(* Reconnect state machines and watchdog, error_recovery.c *)

\* ThisUsb2Dev.DeviceStatus as the driver reports it
DeviceStatusValues ==
    {"ROOT_DEV_DISCONNECTED", "ROOT_DEV_CONNECTED", "ROOT_DEV_SUCCESS"}

\* DeviceStatus >= ROOT_DEV_SUCCESS
AtLeastSuccess(st) == st = "ROOT_DEV_SUCCESS"

USBReconnect_CheckDisconnect(st) == st = "ROOT_DEV_DISCONNECTED"

USBReconnect_Start_Restart(S) ==
    IF S.rc.usb_reconnect_enabled = 0 THEN S
    ELSE [S EXCEPT !.rc.usb_reconnect_state = 1,
                   !.rc.usb_reconnect_delay = USB_INITIAL_DELAY,
                   !.rc.usb_reconnect_retry = 0,
                   !.stats = StatInc(@, "usb_disconnect_count"),
                   !.o.started = TRUE]

USBReconnect_Start(S) ==
    IF S.rc.usb_reconnect_enabled = 0 THEN S
    ELSE IF S.rc.usb_reconnect_state = 0
    THEN [S EXCEPT !.rc.usb_reconnect_state = 1,
                   !.rc.usb_reconnect_delay = USB_INITIAL_DELAY,
                   !.rc.usb_reconnect_retry = 0,
                   !.stats = StatInc(@, "usb_disconnect_count"),
                   !.o.started = TRUE]
    ELSE S

\* st2 is DeviceStatus as read after USB_Bridge_Init and the 500 ms wait
USBReconnect_Execute(S, st2) ==
    IF S.rc.usb_reconnect_state # 2 THEN S
    ELSE IF S.rc.usb_reconnect_retry >= S.rc.usb_reconnect_max_retry
    THEN [S EXCEPT !.rc.usb_reconnect_state = 0, !.o.usbAct = "giveup"]
    ELSE LET T == USB_Bridge_Init(S) IN
         IF AtLeastSuccess(st2)
         THEN [T EXCEPT !.stats = StatInc(@, "usb_connect_count"),
                        !.rc.usb_reconnect_state = 0,
                        !.o.usbAct = "ok"]
         ELSE [T EXCEPT !.rc.usb_reconnect_retry = (@ + 1) % 256,
                        !.stats = StatInc(@, "usb_reconnect_retry"),
                        !.rc.usb_reconnect_state = 1,
                        !.rc.usb_reconnect_delay = USB_BACKOFF_DELAY,
                        !.o.usbAct = "fail"]

USBReconnect_Poll_Unguarded(S, tick_ms, st, st2) ==
    LET T == IF USBReconnect_CheckDisconnect(st) THEN USBReconnect_Start(S)
             ELSE S
    IN  CASE T.rc.usb_reconnect_state = 1 ->
                IF T.rc.usb_reconnect_delay # tick_ms
                THEN [T EXCEPT !.rc.usb_reconnect_delay =
                                    (@ - tick_ms) % 65536]
                ELSE [T EXCEPT !.rc.usb_reconnect_state = 2]
          [] T.rc.usb_reconnect_state = 2 -> USBReconnect_Execute(T, st2)
          [] OTHER -> T

\* st is DeviceStatus as read by USBReconnect_CheckDisconnect
USBReconnect_Poll(S, tick_ms, st, st2) ==
    LET T == IF USBReconnect_CheckDisconnect(st) THEN USBReconnect_Start(S)
             ELSE S
    IN  CASE T.rc.usb_reconnect_state = 1 ->
                IF T.rc.usb_reconnect_delay > tick_ms
                THEN [T EXCEPT !.rc.usb_reconnect_delay = @ - tick_ms]
                ELSE [T EXCEPT !.rc.usb_reconnect_state = 2]
          [] T.rc.usb_reconnect_state = 2 -> USBReconnect_Execute(T, st2)
          [] OTHER -> T

USBReconnect_SetEnable(S, enable) ==
    [S EXCEPT !.rc.usb_reconnect_enabled = enable]

\* "simplified implementation": always 0
BLEReconnect_CheckDisconnect == FALSE

BLEReconnect_Start(S) ==
    IF S.rc.ble_reconnect_enabled = 0 THEN S
    ELSE IF S.rc.ble_reconnect_state = 0
    THEN [S EXCEPT !.rc.ble_reconnect_state = 1,
                   !.rc.ble_reconnect_delay = BLE_INITIAL_DELAY,
                   !.rc.ble_reconnect_retry = 0,
                   !.stats = StatInc(@, "ble_disconnect_count")]
    ELSE S

BLEReconnect_Execute_OneMore(S, connected) ==
    IF S.rc.ble_reconnect_state # 2 THEN S
    ELSE IF S.rc.ble_reconnect_retry > S.rc.ble_reconnect_max_retry
    THEN [S EXCEPT !.rc.ble_reconnect_state = 0, !.o.bleAct = "giveup"]
    ELSE IF connected
         THEN [S EXCEPT !.stats = StatInc(@, "ble_connect_count"),
                        !.rc.ble_reconnect_state = 0,
                        !.o.bleAct = "ok"]
         ELSE [S EXCEPT !.rc.ble_reconnect_retry = (@ + 1) % 256,
                        !.stats = StatInc(@, "ble_reconnect_retry"),
                        !.rc.ble_reconnect_state = 1,
                        !.rc.ble_reconnect_delay = BLE_BACKOFF_DELAY,
                        !.o.bleAct = "fail"]

\* connected is the outcome of HidEmu_ConnectBLE() == SUCCESS
BLEReconnect_Execute(S, connected) ==
    IF S.rc.ble_reconnect_state # 2 THEN S
    ELSE IF S.rc.ble_reconnect_retry >= S.rc.ble_reconnect_max_retry
    THEN [S EXCEPT !.rc.ble_reconnect_state = 0, !.o.bleAct = "giveup"]
    ELSE IF connected
         THEN [S EXCEPT !.stats = StatInc(@, "ble_connect_count"),
                        !.rc.ble_reconnect_state = 0,
                        !.o.bleAct = "ok"]
         ELSE [S EXCEPT !.rc.ble_reconnect_retry = (@ + 1) % 256,
                        !.stats = StatInc(@, "ble_reconnect_retry"),
                        !.rc.ble_reconnect_state = 1,
                        !.rc.ble_reconnect_delay = BLE_BACKOFF_DELAY,
                        !.o.bleAct = "fail"]

BLEReconnect_Poll(S, tick_ms, connected) ==
    LET T == IF BLEReconnect_CheckDisconnect THEN BLEReconnect_Start(S) ELSE S
    IN  CASE T.rc.ble_reconnect_state = 1 ->
                IF T.rc.ble_reconnect_delay > tick_ms
                THEN [T EXCEPT !.rc.ble_reconnect_delay = @ - tick_ms]
                ELSE [T EXCEPT !.rc.ble_reconnect_state = 2]
          [] T.rc.ble_reconnect_state = 2 -> BLEReconnect_Execute(T, connected)
          [] OTHER -> T

BLEReconnect_SetEnable(S, enable) ==
    [S EXCEPT !.rc.ble_reconnect_enabled = enable]

Watchdog_Init(S) ==
    [S EXCEPT !.rc.watchdog_enabled = 1, !.rc.watchdog_timeout = 0,
              !.rc.watchdog_safe_mode = 0, !.o.wdReset = TRUE]

Watchdog_Feed(S) ==
    IF S.rc.watchdog_enabled # 0
    THEN [S EXCEPT !.rc.watchdog_timeout = 0, !.o.wdReset = TRUE]
    ELSE S

\* safe_mode is set, USB_Bridge_Init runs, safe_mode is cleared
Watchdog_SafeRecovery(S) ==
    LET T == USB_Bridge_Init(
                [S EXCEPT !.stats = StatInc(@, "watchdog_timeout_count"),
                          !.rc.watchdog_safe_mode = 1,
                          !.o.wdRec = @ + 1])
    IN  [T EXCEPT !.rc.watchdog_safe_mode = 0]

Watchdog_Poll_EarlyTimeout(S, tick_ms) ==
    IF S.rc.watchdog_enabled = 0 THEN S
    ELSE LET A == [S EXCEPT !.rc.watchdog_timeout = (@ + tick_ms) % 65536,
                            !.o.wdTick = tick_ms]
             B == IF A.rc.watchdog_timeout > 5000
                  THEN [Watchdog_SafeRecovery(A) EXCEPT
                            !.rc.watchdog_timeout = 0, !.o.wdReset = TRUE]
                  ELSE A
         IN  IF B.rc.watchdog_timeout % 1000 = 0 THEN Watchdog_Feed(B) ELSE B

\* Watchdog_Poll without the feed at every full second
Watchdog_Poll_NoSelfFeed(S, tick_ms) ==
    IF S.rc.watchdog_enabled = 0 THEN S
    ELSE LET A == [S EXCEPT !.rc.watchdog_timeout = (@ + tick_ms) % 65536,
                            !.o.wdTick = tick_ms]
         IN  IF A.rc.watchdog_timeout > 10000
             THEN [Watchdog_SafeRecovery(A) EXCEPT
                       !.rc.watchdog_timeout = 0, !.o.wdReset = TRUE]
             ELSE A

Watchdog_Poll_NoReset(S, tick_ms) ==
    IF S.rc.watchdog_enabled = 0 THEN S
    ELSE LET A == [S EXCEPT !.rc.watchdog_timeout = (@ + tick_ms) % 65536,
                            !.o.wdTick = tick_ms]
             B == IF A.rc.watchdog_timeout > 10000
                  THEN Watchdog_SafeRecovery(A)
                  ELSE A
         IN  IF B.rc.watchdog_timeout % 1000 = 0 THEN Watchdog_Feed(B) ELSE B

Watchdog_Poll(S, tick_ms) ==
    IF S.rc.watchdog_enabled = 0 THEN S
    ELSE LET A == [S EXCEPT !.rc.watchdog_timeout = (@ + tick_ms) % 65536,
                            !.o.wdTick = tick_ms]
             B == IF A.rc.watchdog_timeout > 10000
                  THEN [Watchdog_SafeRecovery(A) EXCEPT
                            !.rc.watchdog_timeout = 0, !.o.wdReset = TRUE]
                  ELSE A
         IN  IF B.rc.watchdog_timeout % 1000 = 0 THEN Watchdog_Feed(B) ELSE B

\* The periodic statistics print (stats_counter) writes no program state
ErrorRecovery_Poll(S, tick_ms, st, st2, connected) ==
    Watchdog_Poll(
        BLEReconnect_Poll(
            USBReconnect_Poll(Logged(S, "tick", tick_ms), tick_ms, st, st2),
            tick_ms, connected),
        tick_ms)

\* g_system_state is written too; nothing modelled here reads it
ErrorRecovery_Init(S) ==
    Watchdog_Init(
        [S EXCEPT !.stats = ErrorStats_Init,
                  !.rc = BLEReconnect_Init(USBReconnect_Init(S.rc))])

----------------------------------------------------------------------------
(* Report translator, usb_bridge.c *)

\* (byte >> bit) & 0x01
BitSet(byte, bit) == (byte \div (2 ^ bit)) % 2 = 1

RECURSIVE ParseScan_NoOffset(_, _, _, _, _)
ParseScan_NoOffset(in_buf, len, p, out_buf, key_slot) ==
    LET i == 2 + (p \div 8)
        bit == p % 8
        keycode == ((i - 2) * 8 + bit) % 256
    IN  IF i >= len THEN out_buf
        ELSE IF BitSet(At(in_buf, i), bit) /\ keycode > 3 /\ keycode < 255
                /\ key_slot < 6
        THEN ParseScan_NoOffset(in_buf, len, p + 1,
                                [out_buf EXCEPT ![2 + key_slot + 1] = keycode],
                                key_slot + 1)
        ELSE ParseScan_NoOffset(in_buf, len, p + 1, out_buf, key_slot)

RECURSIVE ParseScan_Cap7(_, _, _, _, _)
ParseScan_Cap7(in_buf, len, p, out_buf, key_slot) ==
    LET i == 2 + (p \div 8)
        bit == p % 8
        keycode == ((i - 2) * 8 + bit + NIZ_KEY_OFFSET) % 256
    IN  IF i >= len THEN out_buf
        ELSE IF BitSet(At(in_buf, i), bit) /\ keycode > 3 /\ keycode < 255
                /\ key_slot < 7
        THEN ParseScan_Cap7(in_buf, len, p + 1,
                            [out_buf EXCEPT ![2 + key_slot + 1] = keycode],
                            key_slot + 1)
        ELSE ParseScan_Cap7(in_buf, len, p + 1, out_buf, key_slot)

\* The first index from i on, below len, whose byte is not 0; len if none
NextNonZero(in_buf, i, len) ==
    LET J == { j \in i .. (len - 1) : At(in_buf, j) # 0 }
    IN  IF J = {} THEN len ELSE CHOOSE j \in J : \A k \in J : j <= k

\* The two nested loops of Parse_Keyboard_Data, one step per (i, bit) in scan
\* order; p counts the bits scanned so far, i = 2 + p / 8 and bit = p % 8;
\* bytes that are 0 are passed over whole (if (in_buf[i] != 0))
RECURSIVE ParseScan(_, _, _, _, _)
ParseScan(in_buf, len, p, out_buf, key_slot) ==
    LET i == 2 + (p \div 8)
        bit == p % 8
        keycode == ((i - 2) * 8 + bit + NIZ_KEY_OFFSET) % 256
    IN  IF i >= len THEN out_buf
        ELSE IF bit = 0 /\ At(in_buf, i) = 0
        THEN ParseScan(in_buf, len, (NextNonZero(in_buf, i, len) - 2) * 8,
                       out_buf, key_slot)
        ELSE IF BitSet(At(in_buf, i), bit) /\ keycode > 3 /\ keycode < 255
                /\ key_slot < 6
        THEN ParseScan(in_buf, len, p + 1,
                       [out_buf EXCEPT ![2 + key_slot + 1] = keycode],
                       key_slot + 1)
        ELSE ParseScan(in_buf, len, p + 1, out_buf, key_slot)

Parse_Keyboard_Data_NoBoot(in_buf, len, out_buf) ==
    LET z == Memcpy(out_buf, Zeros(8), 0, 8) IN
    IF len >= 8
    THEN ParseScan(in_buf, len, 0, [z EXCEPT ![1] = At(in_buf, 0)], 0)
    ELSE z

\* out_buf is the memory at the output pointer, 8 bytes or more; the result
\* is that memory after the call (memset(out_buf, 0, 8) comes first)
Parse_Keyboard_Data(in_buf, len, out_buf) ==
    LET z == Memcpy(out_buf, Zeros(8), 0, 8) IN
    IF len = 8 THEN Memcpy(z, in_buf, 0, 8)
    ELSE IF len > 8
    THEN ParseScan(in_buf, len, 0, [z EXCEPT ![1] = At(in_buf, 0)], 0)
    ELSE z

\* The protocol adaptation of the mouse branch of USB_Bridge_ProcessDevice:
\* mouse_data[MAX_REPORT_SIZE] starts zeroed
Mouse_Adapt_IdBelow5(RxBuffer, len) ==
    LET z == Zeros(MAX_REPORT_SIZE) IN
    IF len = 5 THEN Memcpy(z, RxBuffer, 1, 4)
    ELSE IF len >= 7
    THEN [z EXCEPT ![1] = At(RxBuffer, 1), ![2] = At(RxBuffer, 2),
                   ![3] = At(RxBuffer, 4), ![4] = At(RxBuffer, 6)]
    ELSE IF len = 3 THEN Memcpy(z, RxBuffer, 0, 3)
    ELSE IF len = 4
    THEN IF At(RxBuffer, 0) < 5 THEN Memcpy(z, RxBuffer, 1, 3)
         ELSE Memcpy(z, RxBuffer, 0, 4)
    ELSE z

Mouse_Adapt(RxBuffer, len) ==
    LET z == Zeros(MAX_REPORT_SIZE) IN
    IF len = 5 THEN Memcpy(z, RxBuffer, 1, 4)
    ELSE IF len >= 7
    THEN [z EXCEPT ![1] = At(RxBuffer, 1), ![2] = At(RxBuffer, 2),
                   ![3] = At(RxBuffer, 4), ![4] = At(RxBuffer, 6)]
    ELSE IF len = 3 THEN Memcpy(z, RxBuffer, 0, 3)
    ELSE IF len = 4
    THEN IF At(RxBuffer, 0) <= 5 THEN Memcpy(z, RxBuffer, 1, 3)
         ELSE Memcpy(z, RxBuffer, 0, 4)
    ELSE z

----------------------------------------------------------------------------
(* What the transport and the BLE collaborator can answer *)

Pad(bytes) == bytes \o Zeros(MAX_PACKET_SIZE - Len(bytes))

\* R8_USB2_RX_LEN and RxBuffer after an IN transaction
RxPackets ==
    { [len |-> 0,  buf |-> Pad(<< >>)],
      [len |-> 10, buf |-> Pad(<<1, 0, 9, 0, 0, 0, 0, 0, 0, 128>>)] }

\* Parse_Keyboard_Data(RxBuffer, len) and the mouse adaptation of each packet
KeyboardReports ==
    [rx \in RxPackets |->
        Parse_Keyboard_Data(rx.buf, rx.len, Zeros(MAX_REPORT_SIZE))]

MouseReports == [rx \in RxPackets |-> Mouse_Adapt(rx.buf, rx.len)]

\* USB_HostTransact's status
TransactResults == {"ERR_SUCCESS", "ERR_USB_TRANSFER"}

\* U2SearchTypeDevice: 0xFFFF, or hub port in one byte and interface in the other
SearchResults == {SEARCH_NONE, 258}

\* GetEndpointFromDevice(interface, 0 or 1): the token the driver holds for
\* the keyboard and for the mouse interface
EndpointInputs(dev_type) ==
    IF dev_type = DEV_TYPE_KEYBOARD THEN {0, 1} ELSE {0, 130}

----------------------------------------------------------------------------
(* Bridge poll loop, usb_bridge.c.  Each step yields the set of states the  *)
(* handler can be in after it, one per answer of the transport and of BLE.  *)

\* [step 0] the retry gate; sent is the outcome of HidEmu_SendUSBReport
RetryGate(S, sent) ==
    IF S.pend # 0
    THEN IF sent THEN [S EXCEPT !.pend = 0, !.o.retried = TRUE]
         ELSE [S EXCEPT !.o.retried = TRUE, !.o.gated = TRUE]
    ELSE S

HotPlug_NoConsume(S, int_fg, analyze, init_ok) ==
    LET D == Logged(S, "drain", 0)
        A == IF int_fg = "detect"
             THEN IF analyze = "ERR_USB_CONNECT"
                  THEN [D EXCEPT !.newdev = 1, !.o.edge = "connect"]
                  ELSE IF analyze = "ERR_USB_DISCON"
                  THEN [D EXCEPT !.newdev = 0, !.o.edge = "disconnect"]
                  ELSE D
             ELSE D
    IN  IF A.newdev # 0
        THEN [Logged(A, "settle", 0) EXCEPT
                       !.niz = IF init_ok THEN NIZ_MOUSE_ENDP % USB_ENDP_SYNC_MASK
                               ELSE @,
                       !.o.reinit = @ + 1]
        ELSE A

\* [step 1] interrupt flag, AnalyzeRootU2Hub, then the new-device settle with
\* InitRootU2Device; edge is what AnalyzeRootU2Hub reported
HotPlug(S, int_fg, analyze, init_ok) ==
    LET D == Logged(S, "drain", 0)
        A == IF int_fg = "detect"
             THEN IF analyze = "ERR_USB_CONNECT"
                  THEN [D EXCEPT !.newdev = 1, !.o.edge = "connect"]
                  ELSE IF analyze = "ERR_USB_DISCON"
                  THEN [D EXCEPT !.newdev = 0, !.o.edge = "disconnect"]
                  ELSE D
             ELSE D
    IN  IF A.newdev # 0
        THEN [Logged(A, "settle", 0) EXCEPT !.newdev = 0,
                       !.niz = IF init_ok THEN NIZ_MOUSE_ENDP % USB_ENDP_SYNC_MASK
                               ELSE @,
                       !.o.reinit = @ + 1]
        ELSE A

DiscoverType_NoLookup(S, dev_type, search_res, endpoint) ==
    IF search_res = SEARCH_NONE THEN S
    ELSE LET dev_addr == IF dev_type = DEV_TYPE_KEYBOARD
                         THEN search_res \div 256 ELSE search_res % 256
         IN  IF IsEndpointValid(endpoint)
             THEN [S EXCEPT !.reg =
                      UsbDeviceManager_AddDevice(@, dev_addr, dev_type, endpoint)[1]]
             ELSE S

\* One half of USB_Bridge_DiscoverDevices; the keyboard takes its hub port
\* from the high byte of the search result, the mouse from the low byte
DiscoverType(S, dev_type, search_res, endpoint) ==
    IF search_res = SEARCH_NONE THEN S
    ELSE LET dev_addr == IF dev_type = DEV_TYPE_KEYBOARD
                         THEN search_res \div 256 ELSE search_res % 256
         IN  IF IsEndpointValid(endpoint)
                /\ UsbDeviceManager_FindDeviceByType(S.reg, dev_type) = NOT_FOUND
             THEN [S EXCEPT !.reg =
                      UsbDeviceManager_AddDevice(@, dev_addr, dev_type, endpoint)[1]]
             ELSE S

USB_Bridge_DiscoverDevices(S, k_res, k_endp, m_res, m_endp) ==
    DiscoverType(DiscoverType(Logged(S, "discover", 0),
                              DEV_TYPE_KEYBOARD, k_res, k_endp),
                 DEV_TYPE_MOUSE, m_res, m_endp)

USB_Bridge_CheckDeviceDisconnect_PerSlot(reg, dev_index, st) ==
    IF UsbDeviceManager_IsValid(reg, dev_index) = 0 THEN FALSE
    ELSE reg.devs[dev_index].is_connected = 0

USB_Bridge_CheckDeviceDisconnect(reg, dev_index, st) ==
    IF UsbDeviceManager_IsValid(reg, dev_index) = 0 THEN FALSE
    ELSE st = "ROOT_DEV_DISCONNECTED"

RECURSIVE RemoveFrom(_, _, _)
RemoveFrom(reg, i, st) ==
    IF i >= MAX_USB_DEVICES THEN reg
    ELSE IF UsbDeviceManager_IsValid(reg, i) # 0
            /\ USB_Bridge_CheckDeviceDisconnect(reg, i, st)
    THEN RemoveFrom(UsbDeviceManager_RemoveDevice(reg, i), i + 1, st)
    ELSE RemoveFrom(reg, i + 1, st)

\* The slots for which UsbDeviceManager_IsValid answers 1
ValidIn(reg) == { i \in Slots : UsbDeviceManager_IsValid(reg, i) # 0 }

\* evictAll tells whether the step saw ROOT_DEV_DISCONNECTED, evicted the
\* slots it removed
USB_Bridge_RemoveDisconnectedDevices(S, st) ==
    LET after == RemoveFrom(S.reg, 0, st)
    IN  [Logged(S, "evict", 0) EXCEPT
            !.reg = after,
            !.o.evictAll = (st = "ROOT_DEV_DISCONNECTED"),
            !.o.evicted = ValidIn(S.reg) \ ValidIn(after)]


\* KeyboardSendFailed that also asks for a retry
KeyboardSendFailed_SetsPending(S) ==
    [S EXCEPT !.stats = StatInc(@, "usb_comm_fail_count"), !.pend = 1,
              !.o.kbdFail = TRUE]

\* The keyboard branch after a failed HidEmu_SendUSBReport: only the
\* statistic is written
KeyboardSendFailed(S) ==
    [S EXCEPT !.stats = StatInc(@, "usb_comm_fail_count"), !.o.kbdFail = TRUE]

MouseSendFailed_Retry(S) == [S EXCEPT !.pend = 1, !.o.mouseFail = TRUE]

\* The mouse branch discards the result of HidEmu_SendMouseReport
MouseSendFailed(S) == [S EXCEPT !.o.mouseFail = TRUE]

\* USB_Bridge_ProcessDevice without the test of the receive length
USB_Bridge_ProcessDevice_NoLenTest(S, dev_index, s, rx, sent) ==
    IF UsbDeviceManager_IsValid(S.reg, dev_index) = 0
    THEN [S EXCEPT !.o.lastIn = [NoIn EXCEPT !.slot = dev_index, !.ret = 0]]
    ELSE LET dev == S.reg.devs[dev_index]
             I == Logged(S, "in", dev_index) IN
    IF dev.is_connected = 0 \/ dev.is_valid = 0
    THEN [S EXCEPT !.o.lastIn = [NoIn EXCEPT !.slot = dev_index, !.ret = 0]]
    ELSE IF s # "ERR_SUCCESS"
    THEN [I EXCEPT !.o.txn[dev_index] = "fail", !.o.tok[dev_index] = dev.endpoint,
                   !.o.lastIn = [NoIn EXCEPT !.slot = dev_index, !.ret = 0]]
    ELSE LET A == [I EXCEPT !.reg.devs[dev_index].endpoint =
                                Endpoint_SyncToggle(dev.endpoint),
                            !.o.txn[dev_index] = "ok",
                            !.o.tok[dev_index] = dev.endpoint,
                            !.o.lastIn = [slot |-> dev_index, len |-> rx.len,
                                          ble |-> FALSE, ret |-> 0]]
             R == [A EXCEPT !.o.lastIn.ret = 1]
         IN  IF dev.dev_type = DEV_TYPE_KEYBOARD
             THEN LET temp_report == KeyboardReports[rx]
                      B == [R EXCEPT !.reg = UsbDeviceManager_UpdateReport(
                                                @, dev_index, temp_report, 8),
                                     !.o.lastIn.ble = TRUE]
                  IN  IF sent THEN B ELSE KeyboardSendFailed(B)
             ELSE IF dev.dev_type = DEV_TYPE_MOUSE
             THEN LET mouse_data == MouseReports[rx]
                      B == [R EXCEPT !.reg = UsbDeviceManager_UpdateReport(
                                                @, dev_index, mouse_data, 4),
                                     !.o.lastIn.ble = TRUE]
                  IN  IF sent THEN B ELSE MouseSendFailed(B)
             ELSE R

\* USB_Bridge_ProcessDevice for slot dev_index: s is the transaction status,
\* rx the receive length and buffer, sent the outcome of the BLE send
USB_Bridge_ProcessDevice(S, dev_index, s, rx, sent) ==
    IF UsbDeviceManager_IsValid(S.reg, dev_index) = 0
    THEN [S EXCEPT !.o.lastIn = [NoIn EXCEPT !.slot = dev_index, !.ret = 0]]
    ELSE LET dev == S.reg.devs[dev_index]
             I == Logged(S, "in", dev_index) IN
    IF dev.is_connected = 0 \/ dev.is_valid = 0
    THEN [S EXCEPT !.o.lastIn = [NoIn EXCEPT !.slot = dev_index, !.ret = 0]]
    ELSE IF s # "ERR_SUCCESS"
    THEN [I EXCEPT !.o.txn[dev_index] = "fail", !.o.tok[dev_index] = dev.endpoint,
                   !.o.lastIn = [NoIn EXCEPT !.slot = dev_index, !.ret = 0]]
    ELSE LET A == [I EXCEPT !.reg.devs[dev_index].endpoint =
                                Endpoint_SyncToggle(dev.endpoint),
                            !.o.txn[dev_index] = "ok",
                            !.o.tok[dev_index] = dev.endpoint,
                            !.o.lastIn = [slot |-> dev_index, len |-> rx.len,
                                          ble |-> FALSE, ret |-> 0]]
             R == [A EXCEPT !.o.lastIn.ret = 1]
         IN  IF rx.len = 0 THEN A
             ELSE IF dev.dev_type = DEV_TYPE_KEYBOARD
             THEN LET temp_report == KeyboardReports[rx]
                      B == [R EXCEPT !.reg = UsbDeviceManager_UpdateReport(
                                                @, dev_index, temp_report, 8),
                                     !.o.lastIn.ble = TRUE]
                  IN  IF sent THEN B ELSE KeyboardSendFailed(B)
             ELSE IF dev.dev_type = DEV_TYPE_MOUSE
             THEN LET mouse_data == MouseReports[rx]
                      B == [R EXCEPT !.reg = UsbDeviceManager_UpdateReport(
                                                @, dev_index, mouse_data, 4),
                                     !.o.lastIn.ble = TRUE]
                  IN  IF sent THEN B ELSE MouseSendFailed(B)
             ELSE R

ProcessOutcomes(S, dev_index) ==
    { USB_Bridge_ProcessDevice(S, dev_index, s, rx, sent) :
        s \in TransactResults, rx \in RxPackets, sent \in BOOLEAN }

\* [step 4] one iteration of for (i = 0; i < MAX_USB_DEVICES; i++)
\*              if (UsbDeviceManager_IsValid(i)) USB_Bridge_ProcessDevice(i)
\*          the loop drops what USB_Bridge_ProcessDevice returns
PollSlot(S, i) ==
    IF UsbDeviceManager_IsValid(S.reg, i) # 0
    THEN { [T EXCEPT !.o.lastIn = NoIn] :
             T \in ProcessOutcomes([S EXCEPT !.o.polled = @ \cup {i}], i) }
    ELSE {S}

\* [step 1] what the hot-plug drain and the settle step can leave
HotPlugOutcomes(S) ==
    { HotPlug(S, f, a, k) :
        f \in {"detect", "other", "none"},
        a \in {"ERR_USB_CONNECT", "ERR_USB_DISCON", "ERR_SUCCESS"},
        k \in BOOLEAN }

DiscoverOutcomes_AfterIn(S) ==
    { USB_Bridge_DiscoverDevices(P, kr, ke, mr, me) :
        P \in PollSlot(S, 0),
        kr \in SearchResults, ke \in EndpointInputs(DEV_TYPE_KEYBOARD),
        mr \in SearchResults, me \in EndpointInputs(DEV_TYPE_MOUSE) }

\* [step 2] what Discovery can leave
DiscoverOutcomes(S) ==
    { USB_Bridge_DiscoverDevices(S, kr, ke, mr, me) :
        kr \in SearchResults, ke \in EndpointInputs(DEV_TYPE_KEYBOARD),
        mr \in SearchResults, me \in EndpointInputs(DEV_TYPE_MOUSE) }

\* [step 5] ErrorRecovery_Poll(1)
RecoveryOutcomes(S, tick_ms, st) ==
    { ErrorRecovery_Poll(S, tick_ms, st, st2, connected) :
        st2 \in DeviceStatusValues, connected \in BOOLEAN }

----------------------------------------------------------------------------
(* The state machine *)

\* Startup: static initialisers, then USB_Bridge_Init
Startup ==
    LET S0 == Machine(UsbDeviceManager_Init, 0, Zeros(MAX_REPORT_SIZE), 0,
                      NIZ_MOUSE_ENDP % USB_ENDP_SYNC_MASK, ErrorStats_Init,
                      ReconnectZero, ObsOf("USB_Bridge_Init"))
        S == USB_Bridge_Init(S0)
    IN  /\ g_usb_devices = S.reg.devs
        /\ g_active_device_count = S.reg.count
        /\ kbd_send_pending = S.pend
        /\ last_kbd_report = S.last
        /\ Bridge_NewDevFlag = S.newdev
        /\ Var_NizMouse_Record = S.niz
        /\ g_error_stats = S.stats
        /\ g_reconnect_state = S.rc
        /\ obs = S.o
        /\ polls = 0
        /\ usb_fail_run = 0
        /\ wd_elapsed = 0
        /\ g_ota_state = OtaStateZero
        /\ g_firmware_header = FirmwareHeaderZero
        /\ ota_obs = NoOtaCall

\* No call of the report translator on its own
NoCall == [in_buf |-> Zeros(MAX_PACKET_SIZE), len |-> 0,
           out_buf |-> Zeros(MAX_REPORT_SIZE), called |-> TRUE]

Init == Startup /\ dec = NoCall

\* Failed USB reconnect actions in a row since the last Start
RunAfter(run, o) ==
    IF o.usbAct = "fail" THEN run + 1
    ELSE IF o.usbAct = "ok" \/ o.started THEN 0
    ELSE run

\* What every call of the bridge's handlers ends with
Finish(T) ==
    /\ Leave(T)
    /\ usb_fail_run' = RunAfter(usb_fail_run, T.o)

\* USB_Bridge_Poll, one whole invocation.  DeviceStatus is read after the
\* transport calls of step 1 and is st for the rest of the invocation.
Call_USB_Bridge_Poll ==
    /\ polls < MaxPolls
    /\ usb_fail_run < MaxAttempts
    /\ polls' = polls + 1
    /\ \E G \in { RetryGate(Enter("USB_Bridge_Poll"), sent) : sent \in BOOLEAN } :
          IF G.o.gated THEN Finish(G)
          ELSE \E H \in HotPlugOutcomes(G) :
               \E D \in DiscoverOutcomes(H) :
               \E st \in DeviceStatusValues :
               \E P0 \in PollSlot(USB_Bridge_RemoveDisconnectedDevices(D, st), 0) :
               \E P1 \in PollSlot(P0, 1) :
               \E P2 \in PollSlot(P1, 2) :
               \E P3 \in PollSlot(P2, 3) :
               \E T \in RecoveryOutcomes(P3, BRIDGE_TICK_MS, st) :
                  Finish(T)

Next == Call_USB_Bridge_Poll

Spec == Init /\ [][Next]_vars

----------------------------------------------------------------------------
(* The registry's interface called directly, beside the poll loop *)

AddrInputs == {1}
TypeInputs == {3}
IndexInputs == {0, 4, 255}
ReportInputs == {<<2, 0, 4, 5, 0, 0, 0, 0>>}
LenInputs == {8, 9}

Call_UsbDeviceManager_Init ==
    /\ Leave([Enter("UsbDeviceManager_Init") EXCEPT !.reg = UsbDeviceManager_Init])
    /\ UNCHANGED <<polls, usb_fail_run>>

Call_AddDevice ==
    /\ \E dev_addr \in AddrInputs, dev_type \in TypeInputs :
          LET S == Enter("UsbDeviceManager_AddDevice")
              r == UsbDeviceManager_AddDevice(S.reg, dev_addr, dev_type, 1)
          IN  Leave([S EXCEPT !.reg = r[1], !.o.arg = dev_type, !.o.ret = r[2]])
    /\ UNCHANGED <<polls, usb_fail_run>>

Call_RemoveDevice ==
    /\ \E dev_index \in IndexInputs :
          LET S == Enter("UsbDeviceManager_RemoveDevice")
          IN  Leave([S EXCEPT !.reg = UsbDeviceManager_RemoveDevice(@, dev_index),
                              !.o.arg = dev_index])
    /\ UNCHANGED <<polls, usb_fail_run>>

Call_UpdateReport ==
    /\ \E dev_index \in IndexInputs, report \in ReportInputs, len \in LenInputs :
          LET S == Enter("UsbDeviceManager_UpdateReport")
          IN  Leave([S EXCEPT !.reg = UsbDeviceManager_UpdateReport(
                                          @, dev_index, Pad(report), len),
                              !.o.arg = dev_index])
    /\ UNCHANGED <<polls, usb_fail_run>>

NextReg ==
    \/ Call_UsbDeviceManager_Init
    \/ Call_AddDevice
    \/ Call_RemoveDevice
    \/ Call_UpdateReport
    \/ (polls < MaxRegPolls /\ Call_USB_Bridge_Poll)

SpecReg == Init /\ [][NextReg]_vars

----------------------------------------------------------------------------
(* USB_Bridge_ProcessDevice called on its own between polls *)

\* dev_index of a direct call: the two slots discovery fills, and one past
\* the table
InIndexInputs == {0, 1, MAX_USB_DEVICES}

Call_USB_Bridge_ProcessDevice ==
    /\ polls < MaxPolls
    /\ polls' = polls + 1
    /\ \E dev_index \in InIndexInputs :
       \E T \in ProcessOutcomes([Enter("USB_Bridge_ProcessDevice")
                                    EXCEPT !.o.arg = dev_index], dev_index) :
          Finish([T EXCEPT !.o.ret = T.o.lastIn.ret])

NextIn ==
    \/ Call_USB_Bridge_Poll
    \/ Call_USB_Bridge_ProcessDevice

SpecIn == Init /\ [][NextIn]_vars

----------------------------------------------------------------------------
(* The reconnect machines' interface called directly *)

TickInputs == {1000}
EnableInputs == {0, 1}

Call_USBReconnect_Start ==
    /\ Finish(USBReconnect_Start(Enter("USBReconnect_Start")))
    /\ UNCHANGED polls

Call_USBReconnect_Poll ==
    /\ usb_fail_run < MaxAttempts
    /\ \E tick_ms \in TickInputs, st \in DeviceStatusValues,
          st2 \in DeviceStatusValues :
          Finish(USBReconnect_Poll(
                    [Enter("USBReconnect_Poll") EXCEPT !.o.arg = tick_ms],
                    tick_ms, st, st2))
    /\ UNCHANGED polls

Call_USBReconnect_Execute ==
    /\ usb_fail_run < MaxAttempts
    /\ \E st2 \in DeviceStatusValues :
          Finish(USBReconnect_Execute(Enter("USBReconnect_Execute"), st2))
    /\ UNCHANGED polls

Call_USBReconnect_SetEnable ==
    /\ \E enable \in EnableInputs :
          Finish(USBReconnect_SetEnable(
                    [Enter("USBReconnect_SetEnable") EXCEPT !.o.arg = enable],
                    enable))
    /\ UNCHANGED polls

Call_BLEReconnect_Start ==
    /\ g_error_stats.ble_disconnect_count < MaxStat
    /\ Finish(BLEReconnect_Start(Enter("BLEReconnect_Start")))
    /\ UNCHANGED polls

Call_BLEReconnect_Poll ==
    /\ \E tick_ms \in TickInputs, connected \in BOOLEAN :
          Finish(BLEReconnect_Poll(
                    [Enter("BLEReconnect_Poll") EXCEPT !.o.arg = tick_ms],
                    tick_ms, connected))
    /\ UNCHANGED polls

Call_BLEReconnect_Execute ==
    /\ \E connected \in BOOLEAN :
          Finish(BLEReconnect_Execute(Enter("BLEReconnect_Execute"), connected))
    /\ UNCHANGED polls

Call_BLEReconnect_SetEnable ==
    /\ \E enable \in EnableInputs :
          Finish(BLEReconnect_SetEnable(
                    [Enter("BLEReconnect_SetEnable") EXCEPT !.o.arg = enable],
                    enable))
    /\ UNCHANGED polls

NextRc ==
    \/ Call_USBReconnect_Start
    \/ Call_USBReconnect_Poll
    \/ Call_USBReconnect_Execute
    \/ Call_USBReconnect_SetEnable
    \/ Call_BLEReconnect_Start
    \/ Call_BLEReconnect_Poll
    \/ Call_BLEReconnect_Execute
    \/ Call_BLEReconnect_SetEnable

SpecRc == Init /\ [][NextRc]_vars

----------------------------------------------------------------------------
(* Start and Poll of both machines, with a tick equal to the initial delay *)
(* and the largest tick a uint16_t can hold                                *)

CountdownTicks == {1000, 65535}

Tick_USBReconnect_Start ==
    /\ Finish(USBReconnect_Start(Enter("USBReconnect_Start")))
    /\ UNCHANGED polls

Tick_USBReconnect_Poll ==
    /\ usb_fail_run < MaxAttempts
    /\ \E tick_ms \in CountdownTicks, st \in DeviceStatusValues,
          st2 \in DeviceStatusValues :
          Finish(USBReconnect_Poll(
                    [Enter("USBReconnect_Poll") EXCEPT !.o.arg = tick_ms],
                    tick_ms, st, st2))
    /\ UNCHANGED polls

Tick_BLEReconnect_Start ==
    /\ g_error_stats.ble_disconnect_count < MaxStat
    /\ Finish(BLEReconnect_Start(Enter("BLEReconnect_Start")))
    /\ UNCHANGED polls

Tick_BLEReconnect_Poll ==
    /\ \E tick_ms \in CountdownTicks, connected \in BOOLEAN :
          Finish(BLEReconnect_Poll(
                    [Enter("BLEReconnect_Poll") EXCEPT !.o.arg = tick_ms],
                    tick_ms, connected))
    /\ UNCHANGED polls

NextTick ==
    \/ Tick_USBReconnect_Start
    \/ Tick_USBReconnect_Poll
    \/ Tick_BLEReconnect_Start
    \/ Tick_BLEReconnect_Poll

SpecTick == Init /\ [][NextTick]_vars

----------------------------------------------------------------------------
(* The recovery module's interface with the watchdog in use *)

WdTickInputs == {3300, 3400}

Call_ErrorRecovery_Init ==
    /\ Finish(ErrorRecovery_Init(Enter("ErrorRecovery_Init")))
    /\ UNCHANGED polls

Call_Watchdog_Feed ==
    /\ Finish(Watchdog_Feed(Enter("Watchdog_Feed")))
    /\ UNCHANGED polls

Call_Watchdog_Poll ==
    /\ \E tick_ms \in WdTickInputs :
          Finish(Watchdog_Poll(
                    [Enter("Watchdog_Poll") EXCEPT !.o.arg = tick_ms], tick_ms))
    /\ UNCHANGED polls

Call_ErrorRecovery_Poll ==
    /\ usb_fail_run < MaxAttempts
    /\ \E tick_ms \in WdTickInputs, st \in DeviceStatusValues,
          st2 \in DeviceStatusValues, connected \in BOOLEAN :
          Finish(ErrorRecovery_Poll(
                    [Enter("ErrorRecovery_Poll") EXCEPT !.o.arg = tick_ms],
                    tick_ms, st, st2, connected))
    /\ UNCHANGED polls

NextWd ==
    \/ Call_ErrorRecovery_Init
    \/ Call_Watchdog_Feed
    \/ Call_Watchdog_Poll
    \/ Call_ErrorRecovery_Poll

SpecWd == Init /\ [][NextWd]_vars

----------------------------------------------------------------------------
(* Discovery and the slot handler called on their own, interleaved with
   reconnect cycles and watchdog ticks *)

Call_USB_Bridge_DiscoverDevices ==
    /\ \E D \in DiscoverOutcomes(Enter("USB_Bridge_DiscoverDevices")) :
          Finish(D)
    /\ UNCHANGED polls

\* two ticks of this size take the watchdog past its limit
ReinitWdTicks == {5001}

Reinit_Watchdog_Poll ==
    /\ \E tick_ms \in ReinitWdTicks :
          Finish(Watchdog_Poll(
                    [Enter("Watchdog_Poll") EXCEPT !.o.arg = tick_ms], tick_ms))
    /\ UNCHANGED polls

NextReinit ==
    \/ Call_USB_Bridge_DiscoverDevices
    \/ Call_USB_Bridge_ProcessDevice
    \/ Call_USBReconnect_Start
    \/ Call_USBReconnect_Poll
    \/ Call_ErrorRecovery_Init
    \/ Reinit_Watchdog_Poll

SpecReinit == Init /\ [][NextReinit]_vars

----------------------------------------------------------------------------
(* The watchdog polled with ticks of at most 10 ms *)

FineTicks == {7, 10}

Fine_Watchdog_Poll ==
    /\ \E tick_ms \in FineTicks :
          Finish(Watchdog_Poll(
                    [Enter("Watchdog_Poll") EXCEPT !.o.arg = tick_ms], tick_ms))
    /\ UNCHANGED polls

NextWdFine ==
    \/ Call_ErrorRecovery_Init
    \/ Call_Watchdog_Feed
    \/ Fine_Watchdog_Poll

SpecWdFine == Init /\ [][NextWdFine]_vars

----------------------------------------------------------------------------
(* The watchdog under the bridge's tick: USB_Bridge_Poll ends with
   ErrorRecovery_Poll(1), whose last call is Watchdog_Poll(1); the two
   reconnect polls before it write no watchdog field *)

Ms_Watchdog_Poll ==
    /\ Finish(Watchdog_Poll(
                 [Enter("Watchdog_Poll") EXCEPT !.o.arg = BRIDGE_TICK_MS],
                 BRIDGE_TICK_MS))
    /\ UNCHANGED polls

NextWdMs ==
    \/ Call_ErrorRecovery_Init
    \/ Ms_Watchdog_Poll

SpecWdMs == Init /\ [][NextWdMs]_vars

----------------------------------------------------------------------------
(* The report translator called on its own *)

\* Bit positions <<byte, bit>> of the bitmap that the inputs combine
BitPositions ==
    { <<2, 0>>, <<2, 1>>, <<2, 7>>, <<3, 0>>, <<3, 4>>, <<5, 3>>, <<8, 0>>,
      <<9, 7>>, <<15, 7>> }

AllPositions == (2 .. (MAX_PACKET_SIZE - 1)) \X (0 .. 7)

Bitmaps ==
    { {p} : p \in AllPositions }
    \cup { B \in SUBSET BitPositions : Cardinality(B) <= MaxSetBits }

BitmapByte(bits, i) ==
    LET v(b) == IF <<i, b>> \in bits THEN 2 ^ b ELSE 0
    IN  v(0) + v(1) + v(2) + v(3) + v(4) + v(5) + v(6) + v(7)

\* RxBuffer holding a bitmap report: modifiers, one more byte, the bitmap
NkroBuffer(b0, b1, bits) ==
    [k \in 1 .. MAX_PACKET_SIZE |->
        IF k = 1 THEN b0 ELSE IF k = 2 THEN b1 ELSE BitmapByte(bits, k - 1)]

NkroInputs ==
    { [in_buf |-> NkroBuffer(h[1], h[2], B), len |-> n] :
        h \in { <<0, 0>>, <<2, 9>> }, B \in Bitmaps, n \in {9, 16} }

\* 8-byte reports, followed in RxBuffer by bytes that are not part of them
BootInputs ==
    { [in_buf |-> b \o [k \in 1 .. 8 |-> 254], len |-> 8] :
        b \in [1 .. 8 -> {0, 255}]
              \cup { <<1, 2, 3, 4, 5, 6, 7, 8>>, <<2, 0, 4, 5, 6, 7, 8, 9>> } }

ShortInputs ==
    { [in_buf |-> Pad(<<1, 2, 3>>), len |-> n] : n \in {0, 3} }

\* The memory at out_buf before the call: 8 bytes and 2 bytes beyond them
OutBufInputs == { [k \in 1 .. 10 |-> 170] }

InitKbd ==
    /\ Startup
    /\ dec \in { [in_buf |-> x.in_buf, len |-> x.len, out_buf |-> m,
                  called |-> FALSE] :
                    x \in NkroInputs \cup BootInputs \cup ShortInputs,
                    m \in OutBufInputs }

Call_Parse_Keyboard_Data ==
    /\ ~dec.called
    /\ dec' = [dec EXCEPT
                  !.out_buf = Parse_Keyboard_Data(dec.in_buf, dec.len, @),
                  !.called = TRUE]
    /\ UNCHANGED <<g_usb_devices, g_active_device_count, kbd_send_pending,
                   last_kbd_report, Bridge_NewDevFlag, Var_NizMouse_Record,
                   g_error_stats, g_reconnect_state, obs, polls, usb_fail_run,
                   wd_elapsed, g_ota_state, g_firmware_header, ota_obs>>

NextKbd == Call_Parse_Keyboard_Data

SpecKbd == InitKbd /\ [][NextKbd]_vars

-----------------------------------------------------------------------------
(* The report translator called with len up to 255, the range of uint8_t *)

MAX_LEN == 255

\* Bit positions whose keycode (i-2)*8+bit+4 is 4, 254, 255, 256, 259, 260,
\* 512, 516 and 2027
LongBitPositions ==
    { <<2, 0>>, <<33, 2>>, <<33, 3>>, <<33, 4>>, <<33, 7>>, <<34, 0>>,
      <<65, 4>>, <<66, 0>>, <<254, 7>> }

LongBitmaps == { B \in SUBSET LongBitPositions : Cardinality(B) \in {1, 2} }

\* The memory at in_buf: modifiers, one more byte, the bitmap
LongBuffer(b0, b1, bits) ==
    [k \in 1 .. MAX_LEN |->
        IF k = 1 THEN b0 ELSE IF k = 2 THEN b1 ELSE BitmapByte(bits, k - 1)]

LongInputs ==
    { [in_buf |-> LongBuffer(2, 0, B), len |-> n] :
        B \in LongBitmaps, n \in {35, 67, MAX_LEN} }

InitKbdLong ==
    /\ Startup
    /\ dec \in { [in_buf |-> x.in_buf, len |-> x.len, out_buf |-> m,
                  called |-> FALSE] : x \in LongInputs, m \in OutBufInputs }

SpecKbdLong == InitKbdLong /\ [][NextKbd]_vars

-----------------------------------------------------------------------------
(* The mouse protocol adaptation of USB_Bridge_ProcessDevice on its own *)

\* RxBuffer after an IN transaction of a mouse: first byte, then bytes that
\* tell the positions apart
MouseBuffers ==
    { [k \in 1 .. MAX_PACKET_SIZE |-> IF k = 1 THEN r0 ELSE base + k] :
        r0 \in {0, 1, 5, 6, 255}, base \in {16, 200} }

\* R8_USB2_RX_LEN values that reach the adaptation (len > 0)
MouseLens == 1 .. MAX_PACKET_SIZE

InitMouse ==
    /\ Startup
    /\ dec \in { [in_buf |-> b, len |-> n, out_buf |-> Zeros(MAX_REPORT_SIZE),
                  called |-> FALSE] : b \in MouseBuffers, n \in MouseLens }

\* uint8_t mouse_data[MAX_REPORT_SIZE] = {0}; followed by the adaptation
Call_Mouse_Adapt ==
    /\ ~dec.called
    /\ dec' = [dec EXCEPT !.out_buf = Mouse_Adapt(dec.in_buf, dec.len),
                          !.called = TRUE]
    /\ UNCHANGED <<g_usb_devices, g_active_device_count, kbd_send_pending,
                   last_kbd_report, Bridge_NewDevFlag, Var_NizMouse_Record,
                   g_error_stats, g_reconnect_state, obs, polls, usb_fail_run,
                   wd_elapsed, g_ota_state, g_firmware_header, ota_obs>>

NextMouse == Call_Mouse_Adapt

SpecMouse == InitMouse /\ [][NextMouse]_vars

-----------------------------------------------------------------------------
(* The OTA manager's interface *)

SizeInputs == {0, 36, 72, 65536, 65537}

Crc32Inputs == {7, 305419896}

LE16(v) == <<v % 256, (v \div 256) % 256>>

LE32(v) == LE16(v % 65536) \o LE16(v \div 65536)

\* A packet that starts with the 36 bytes of a firmware header
HeaderPacket(magic, size, crc32) ==
    LE32(magic) \o LE16(256) \o LE16(1) \o LE32(size) \o LE32(crc32)
    \o LE32(0) \o Zeros(16)

DataInputs ==
    { DataAt(HeaderPacket(m, sz, c)) : m \in {OTA_MAGIC_NUMBER, 1},
                                      sz \in {36, 72}, c \in Crc32Inputs }
    \cup { DataAt([k \in 1 .. 36 |-> 165]), DataAt(<< >>), NullData }

LengthOf(data) == IF data.null THEN FIRMWARE_HEADER_SIZE ELSE Len(data.bytes)

\* The OTA globals as the function finds them
EnterOta == Ota(g_ota_state, g_firmware_header, 0)

LeaveOta(O, call) ==
    /\ g_ota_state' = O.st
    /\ g_firmware_header' = O.hdr
    /\ ota_obs' = [call EXCEPT !.ret = O.ret]
    /\ UNCHANGED <<g_usb_devices, g_active_device_count, kbd_send_pending,
                   last_kbd_report, Bridge_NewDevFlag, Var_NizMouse_Record,
                   g_error_stats, g_reconnect_state, obs, polls, usb_fail_run,
                   wd_elapsed, dec>>

Call_OtaManager_Init ==
    LeaveOta(OtaManager_Init, [NoOtaCall EXCEPT !.op = "OtaManager_Init"])

Call_OtaManager_StartUpdate ==
    \E total_size \in SizeInputs, crc32 \in Crc32Inputs :
        LeaveOta(OtaManager_StartUpdate(EnterOta, total_size, crc32),
                 [NoOtaCall EXCEPT !.op = "OtaManager_StartUpdate",
                                   !.total_size = total_size,
                                   !.crc32 = crc32])

Call_OtaManager_ReceiveData ==
    \E data \in DataInputs :
        LeaveOta(OtaManager_ReceiveData(EnterOta, data, LengthOf(data)),
                 [NoOtaCall EXCEPT !.op = "OtaManager_ReceiveData",
                                   !.data = data,
                                   !.length = LengthOf(data)])

Call_OtaManager_CompleteUpdate ==
    LeaveOta(OtaManager_CompleteUpdate(EnterOta),
             [NoOtaCall EXCEPT !.op = "OtaManager_CompleteUpdate"])

Call_OtaManager_CancelUpdate ==
    LeaveOta(OtaManager_CancelUpdate(EnterOta),
             [NoOtaCall EXCEPT !.op = "OtaManager_CancelUpdate"])

NextOta ==
    \/ Call_OtaManager_Init
    \/ Call_OtaManager_StartUpdate
    \/ Call_OtaManager_ReceiveData
    \/ Call_OtaManager_CompleteUpdate
    \/ Call_OtaManager_CancelUpdate

SpecOta == Init /\ [][NextOta]_vars

----------------------------------------------------------------------------
(* Properties of the poll loop *)

IsPollCall == obs'.op = "USB_Bridge_Poll" /\ polls' = polls + 1

\* C1: after a keyboard BLE send fails during a Poll Loop invocation, the
\* next invocation first retries the report and issues no USB IN transaction
\* until that retry has succeeded
C1_PendingRetryGate ==
    [][ (IsPollCall /\ obs.op = "USB_Bridge_Poll" /\ obs.kbdFail)
        => /\ obs'.retried
           /\ obs'.gated => \A i \in Slots : obs'.txn[i] = "none" ]_vars

\* C2: whenever the keyboard BLE send inside the per-slot transaction fails,
\* the pending-retry flag is set, so that the report is re-sent by later
\* invocations and is not lost
C2_KeyboardFailureSetsPending ==
    (obs.op = "USB_Bridge_Poll" /\ obs.kbdFail /\ obs.inits = 0)
    => kbd_send_pending # 0

\* C3: a failed mouse BLE send never sets the pending-retry flag, is never
\* retried, and does not keep the next Poll Loop invocation from issuing an
\* IN transaction for every slot
C3_MouseDropOnBackpressure ==
    [][ IsPollCall
        => /\ obs'.mouseFail => kbd_send_pending' = 0
           /\ (obs.op = "USB_Bridge_Poll" /\ obs.mouseFail)
              => /\ ~obs'.retried
                 /\ ~obs'.gated
                 /\ \A i \in Slots :
                       g_usb_devices'[i].is_valid # 0 => obs'.txn[i] # "none"
      ]_vars

C3_Witness ==
    /\ obs.op = "USB_Bridge_Poll"
    /\ obs.mouseFail
    /\ polls >= 2
    /\ kbd_send_pending = 0

\* C4: for every valid slot and every per-slot transaction, bit 7 of the
\* slot's endpoint token is flipped iff the IN transaction returned success;
\* otherwise the token is unchanged; bits 0-6 are unchanged in both cases
C4_TokenTogglesIffSuccess ==
    [][ IsPollCall
        => \A i \in Slots :
              g_usb_devices'[i].is_valid # 0
              => LET before == obs'.tok[i]
                     after == g_usb_devices'[i].endpoint
                 IN  /\ (g_usb_devices[i].is_valid # 0 /\ obs'.txn[i] # "none")
                        => before = g_usb_devices[i].endpoint
                     /\ (g_usb_devices[i].is_valid # 0 /\ obs'.txn[i] = "none")
                        => after = g_usb_devices[i].endpoint
                     /\ obs'.txn[i] = "ok"
                        => /\ (after >= 128) # (before >= 128)
                           /\ after % 128 = before % 128
                     /\ obs'.txn[i] = "fail" => after = before
      ]_vars

C4_Witness ==
    /\ obs.op = "USB_Bridge_Poll"
    /\ \E i \in Slots : g_usb_devices[i].is_valid # 0 /\ obs.txn[i] = "ok"
                        /\ obs.tok[i] >= 128
    /\ \E j \in Slots : g_usb_devices[j].is_valid # 0 /\ obs.txn[j] = "fail"

ValidOfType(devs, dev_type) ==
    { i \in Slots : devs[i].is_valid # 0 /\ devs[i].dev_type = dev_type }

\* C8: after any sequence of Poll Loop invocations the registry holds at most
\* one valid Keyboard slot and at most one valid Mouse slot, and a Poll whose
\* Discovery runs while a device of a type is registered adds no slot of
\* that type
C8_DiscoveryIdempotent ==
    /\ [](\A t \in {DEV_TYPE_KEYBOARD, DEV_TYPE_MOUSE} :
             Cardinality(ValidOfType(g_usb_devices, t)) <= 1)
    /\ [][ IsPollCall
           => \A t \in {DEV_TYPE_KEYBOARD, DEV_TYPE_MOUSE} :
                 ValidOfType(g_usb_devices, t) # {}
                 => ValidOfType(g_usb_devices', t) \subseteq
                        ValidOfType(g_usb_devices, t) ]_vars

C8_Witness ==
    /\ obs.op = "USB_Bridge_Poll"
    /\ polls >= 2
    /\ Cardinality(ValidOfType(g_usb_devices, DEV_TYPE_KEYBOARD)) = 1
    /\ Cardinality(ValidOfType(g_usb_devices, DEV_TYPE_MOUSE)) = 1
    /\ \A i \in Slots : g_usb_devices[i].is_valid # 0 => obs.txn[i] = "ok"

----------------------------------------------------------------------------
(* Properties of the registry *)

ValidSlots(devs) == { i \in Slots : devs[i].is_valid # 0 }

\* C5: add when all 4 slots are valid returns 0xFF and leaves every slot and
\* the active count unchanged; add when at least one slot is invalid returns
\* an index in 0..3, which names the slot that was filled
C5_AddFullOrIndex ==
    [][ obs'.op = "UsbDeviceManager_AddDevice"
        => IF ValidSlots(g_usb_devices) = Slots
           THEN /\ obs'.ret = 255
                /\ g_usb_devices' = g_usb_devices
                /\ g_active_device_count' = g_active_device_count
           ELSE /\ obs'.ret \in 0 .. 3
                /\ obs'.ret \notin ValidSlots(g_usb_devices)
                /\ ValidSlots(g_usb_devices') =
                      ValidSlots(g_usb_devices) \cup {obs'.ret}
                /\ g_usb_devices'[obs'.ret].dev_type = obs'.arg ]_vars

C5_Witness ==
    /\ obs.op = "UsbDeviceManager_AddDevice"
    /\ obs.ret = 255
    /\ ValidSlots(g_usb_devices) = Slots

\* C6: remove and updateReport called with an index >= 4 or with the index
\* of an invalid slot leave all slots and the active count as they were
C6_InvalidIndexNoOp ==
    [][ ( /\ obs'.op \in {"UsbDeviceManager_RemoveDevice",
                          "UsbDeviceManager_UpdateReport"}
          /\ (obs'.arg >= 4 \/ obs'.arg \notin ValidSlots(g_usb_devices)) )
        => /\ g_usb_devices' = g_usb_devices
           /\ g_active_device_count' = g_active_device_count ]_vars

C6_Witness ==
    /\ obs.op = "UsbDeviceManager_UpdateReport"
    /\ obs.arg = 0
    /\ 0 \notin ValidSlots(g_usb_devices)
    /\ g_active_device_count > 0

\* C7: in every reachable state the active count equals the number of valid
\* slots and lies between 0 and 4
C7_ActiveCountIsValidCount ==
    /\ g_active_device_count = Cardinality(ValidSlots(g_usb_devices))
    /\ g_active_device_count \in 0 .. 4

C7_Witness ==
    /\ obs.op = "UsbDeviceManager_RemoveDevice"
    /\ obs.arg = 0
    /\ ValidSlots(g_usb_devices) = Slots \ {0}
    /\ g_active_device_count = 3

----------------------------------------------------------------------------
(* Properties of the reconnect machines *)

C10_GiveUpAfterThreeFailures ==
    /\ (obs.usbAct = "fail" /\ usb_fail_run = 3)
       => /\ g_reconnect_state.usb_reconnect_state = 0
          /\ g_error_stats.usb_reconnect_retry = 3
    /\ usb_fail_run <= 3

\* C11: once Start has moved an instance to Waiting, no more than maxRetry
\* reconnect actions (3 for USB, 5 for BLE) fail before the instance is back
\* in Idle
C11_BoundedReconnect ==
    /\ usb_fail_run <= USB_MAX_RETRY
    /\ g_reconnect_state.ble_reconnect_retry <= BLE_MAX_RETRY

UsbFields(rc) ==
    <<rc.usb_reconnect_enabled, rc.usb_reconnect_state,
      rc.usb_reconnect_delay, rc.usb_reconnect_retry>>

BleFields(rc) ==
    <<rc.ble_reconnect_enabled, rc.ble_reconnect_state,
      rc.ble_reconnect_delay, rc.ble_reconnect_retry>>

\* C12: every step of the USB machine (Start, Poll, Execute) leaves the BLE
\* instance's enabled flag, state, delay and retry count unchanged, and every
\* step of the BLE machine leaves the USB instance's fields unchanged
C12_InstancesIndependent ==
    [][ /\ obs'.op \in {"USBReconnect_Start", "USBReconnect_Poll",
                        "USBReconnect_Execute"}
           => BleFields(g_reconnect_state') = BleFields(g_reconnect_state)
        /\ obs'.op \in {"BLEReconnect_Start", "BLEReconnect_Poll",
                        "BLEReconnect_Execute"}
           => UsbFields(g_reconnect_state') = UsbFields(g_reconnect_state)
      ]_vars

\* C13: no error statistics counter ever takes a value lower than a value it
\* held earlier
C13_StatsMonotonic ==
    [][ \A n \in StatNames : g_error_stats'[n] >= g_error_stats[n] ]_vars

----------------------------------------------------------------------------
(* Properties of the watchdog *)

\* C14: when every reset of the accumulator comes before 10000 ms of ticks
\* have accumulated since the previous reset, Watchdog_Poll never invokes
\* safe recovery: a recovery happens only in a call by which at least
\* 10000 ms have accumulated
C14_FedWatchdogNeverRecovers ==
    [][ obs'.wdRec > 0 => wd_elapsed + obs'.wdTick >= 10000 ]_vars

C14_Witness ==
    /\ obs.op = "Watchdog_Poll"
    /\ g_reconnect_state.watchdog_enabled = 1
    /\ wd_elapsed = 9900
    /\ obs.wdRec = 0
    /\ g_reconnect_state.watchdog_timeout = 9900

\* C15: with the watchdog enabled and no feed, the call of Watchdog_Poll by
\* which the ticks have accumulated to 10000 ms or more invokes safe recovery
\* exactly once and leaves watchdog_timeout_count exactly one greater
C15_StarvedWatchdogRecoversOnce ==
    [][ ( /\ obs'.op \in {"Watchdog_Poll", "ErrorRecovery_Poll"}
          /\ obs'.wdTick > 0
          /\ wd_elapsed + obs'.wdTick >= 10000 )
        => /\ obs'.wdRec = 1
           /\ g_error_stats'.watchdog_timeout_count =
                 g_error_stats.watchdog_timeout_count + 1 ]_vars

----------------------------------------------------------------------------
(* Order of the steps of one poll *)

StepRank(name) ==
    CASE name = "drain" -> 1
      [] name = "settle" -> 2
      [] name = "discover" -> 3
      [] name = "evict" -> 4
      [] name = "in" -> 5
      [] name = "tick" -> 6

StepCount(log, name) ==
    Cardinality({ k \in 1 .. Len(log) : log[k][1] = name })

\* C16: in a Poll Loop invocation that passes the pending-retry gate the
\* steps are, in this order: hot-plug drain, new-device settle (if pending),
\* Discovery, eviction, one IN transaction per valid slot in ascending index,
\* recovery tick; no IN precedes Discovery or eviction and the recovery tick
\* is invoked exactly once, last
C16_PollStepOrder ==
    (obs.op = "USB_Bridge_Poll" /\ ~obs.gated)
    => LET log == obs.log IN
       /\ \A j, k \in 1 .. Len(log) :
             j < k => /\ StepRank(log[j][1]) <= StepRank(log[k][1])
                      /\ StepRank(log[j][1]) = StepRank(log[k][1])
                         => (log[j][1] = "in" /\ log[j][2] < log[k][2])
       /\ StepCount(log, "drain") = 1
       /\ StepCount(log, "settle") = obs.reinit
       /\ StepCount(log, "discover") = 1
       /\ StepCount(log, "evict") = 1
       /\ StepCount(log, "tick") = 1
       /\ log[Len(log)] = <<"tick", BRIDGE_TICK_MS>>
       /\ obs.inits = 0
          => { log[k][2] : k \in { n \in 1 .. Len(log) : log[n][1] = "in" } }
                = { i \in Slots : g_usb_devices[i].is_valid # 0 }

C16_Witness ==
    /\ obs.op = "USB_Bridge_Poll"
    /\ ~obs.gated
    /\ obs.log = << <<"drain", 0>>, <<"settle", 0>>, <<"discover", 0>>,
                    <<"evict", 0>>, <<"in", 0>>, <<"in", 1>>,
                    <<"tick", BRIDGE_TICK_MS>> >>

\* C17: every BLE send failure whose report is dropped (not retried later)
\* increments at least one error statistics counter
C17_DroppedReportIsCounted ==
    [][ ( /\ IsPollCall
          /\ obs'.kbdFail \/ obs'.mouseFail
          /\ obs'.inits = 0
          /\ kbd_send_pending' = 0 )
        => \E n \in StatNames : g_error_stats'[n] > g_error_stats[n] ]_vars

----------------------------------------------------------------------------
(* Properties of the report translator *)

\* C18: with len = 8 the 8-byte output equals the input byte for byte
C18_BootReportIdentity ==
    (dec.called /\ dec.len = 8)
    => \A k \in 0 .. 7 : At(dec.out_buf, k) = At(dec.in_buf, k)

C18_Witness ==
    /\ dec.called
    /\ dec.len = 8
    /\ SubSeq(dec.in_buf, 1, 8) = <<1, 2, 3, 4, 5, 6, 7, 8>>
    /\ SubSeq(dec.out_buf, 1, 8) = <<1, 2, 3, 4, 5, 6, 7, 8>>

\* The set bits <<byte, bit>> of the bitmap, bytes 2 .. len - 1
SetBits(buf, n) ==
    { q \in (2 .. (n - 1)) \X (0 .. 7) :
        (At(buf, q[1]) \div (2 ^ q[2])) % 2 = 1 }

KeycodeOf(q) == (q[1] - 2) * 8 + q[2] + 4

\* The set bit with k set bits before it in scan order
NthBit(bits, k) ==
    CHOOSE q \in bits :
        Cardinality({ r \in bits : KeycodeOf(r) < KeycodeOf(q) }) = k

\* C19: for len > 8 and a bitmap with exactly one set bit, at byte i and bit
\* b, with (i-2)*8+b+4 strictly between 3 and 255, the output has byte 0
\* equal to input byte 0, byte 1 zero, and exactly one non-zero key slot among
\* bytes 2..7, which equals (i-2)*8+b+4
C19_SingleKey ==
    ( /\ dec.called
      /\ dec.len > 8
      /\ Cardinality(SetBits(dec.in_buf, dec.len)) = 1 )
    => LET q == CHOOSE q \in SetBits(dec.in_buf, dec.len) : TRUE
           filled == { k \in 2 .. 7 : At(dec.out_buf, k) # 0 }
       IN  (KeycodeOf(q) > 3 /\ KeycodeOf(q) < 255)
           => /\ At(dec.out_buf, 0) = At(dec.in_buf, 0)
              /\ At(dec.out_buf, 1) = 0
              /\ Cardinality(filled) = 1
              /\ \A k \in filled : At(dec.out_buf, k) = KeycodeOf(q)

C19_Witness ==
    /\ dec.called
    /\ dec.len = 16
    /\ SetBits(dec.in_buf, dec.len) = { <<15, 7>> }
    /\ At(dec.in_buf, 1) # 0
    /\ SubSeq(dec.out_buf, 1, 8) = <<2, 0, 115, 0, 0, 0, 0, 0>>

\* C20: for len > 8 and more than 6 valid set bits the output has exactly 6
\* filled key slots (bytes 2..7), holding the keycodes of the first 6 set
\* bits in scan order, and nothing is written outside the 8-byte output
C20_OverflowKeepsFirstSix ==
    ( /\ dec.called
      /\ dec.len > 8
      /\ Cardinality({ q \in SetBits(dec.in_buf, dec.len) :
                          KeycodeOf(q) > 3 /\ KeycodeOf(q) < 255 }) > 6 )
    => /\ \A k \in 0 .. 5 :
             /\ At(dec.out_buf, 2 + k) # 0
             /\ At(dec.out_buf, 2 + k) =
                   KeycodeOf(NthBit(SetBits(dec.in_buf, dec.len), k))
       /\ Len(dec.out_buf) = 10
       /\ At(dec.out_buf, 8) = 170
       /\ At(dec.out_buf, 9) = 170

C20_Witness ==
    /\ dec.called
    /\ dec.len = 9
    /\ Cardinality(SetBits(dec.in_buf, dec.len)) = 7
    /\ dec.out_buf = <<2, 0, 4, 5, 11, 12, 16, 31, 170, 170>>


-----------------------------------------------------------------------------
(* Properties of the mouse adaptation *)

\* The 4-byte mouse report of the length table
MouseTable(raw, len) ==
    CASE len = 3 -> <<raw[1], raw[2], raw[3], 0>>
      [] len = 4 /\ raw[1] <= 5 -> <<raw[2], raw[3], raw[4], 0>>
      [] len = 4 /\ raw[1] > 5 -> <<raw[1], raw[2], raw[3], raw[4]>>
      [] len = 5 -> <<raw[2], raw[3], raw[4], raw[5]>>
      [] len \in 7 .. 16 -> <<raw[2], raw[3], raw[5], raw[7]>>
      [] len \in {1, 2, 6} -> <<0, 0, 0, 0>>

\* C21: for every len from 1 to 16 the mouse report handed on is the one of
\* the length table: len 3 the first three bytes and 0, len 4 bytes 1..3 and 0
\* when byte 0 is at most 5 and bytes 0..3 otherwise, len 5 bytes 1..4,
\* len >= 7 bytes 1, 2, 4, 6, and all zero for len 1, 2 and 6
C21_MouseTable ==
    (dec.called /\ dec.len \in 1 .. 16)
    => SubSeq(dec.out_buf, 1, 4) = MouseTable(dec.in_buf, dec.len)

C21_Witness ==
    /\ dec.called /\ dec.len = 4 /\ dec.in_buf[1] = 5
    /\ SubSeq(dec.out_buf, 1, 4) = <<dec.in_buf[2], dec.in_buf[3], dec.in_buf[4], 0>>
    /\ dec.in_buf[2] # dec.in_buf[1]


-----------------------------------------------------------------------------
(* Properties of the OTA manager *)

\* C22: after OtaManager_Init the state is Idle (0); StartUpdate with a size
\* in 1..65536 called in Idle returns 0 and leaves the state Checking (1) with
\* IsUpdating = 1; CancelUpdate called in a state other than Idle leaves the
\* state Idle with IsUpdating = 0 and received_size = 0
C22_OtaStateMachine ==
    [][ /\ ota_obs'.op = "OtaManager_Init"
           => OtaManager_GetState(g_ota_state') = 0
        /\ (/\ ota_obs'.op = "OtaManager_StartUpdate"
            /\ ota_obs'.total_size \in 1 .. 65536
            /\ OtaManager_GetState(g_ota_state) = 0)
           => /\ ota_obs'.ret = 0
              /\ OtaManager_GetState(g_ota_state') = 1
              /\ OtaManager_IsUpdating(g_ota_state') = 1
              /\ g_ota_state'.total_size = ota_obs'.total_size
        /\ (/\ ota_obs'.op = "OtaManager_CancelUpdate"
            /\ OtaManager_GetState(g_ota_state) # 0)
           => /\ OtaManager_GetState(g_ota_state') = 0
              /\ OtaManager_IsUpdating(g_ota_state') = 0
              /\ OtaManager_GetProgress(g_ota_state') = 0 ]_vars

C22_Witness ==
    /\ ota_obs.op = "OtaManager_StartUpdate"
    /\ ota_obs.total_size = 65536
    /\ ota_obs.ret = 0
    /\ OtaManager_GetState(g_ota_state) = 1

\* The first data packet carries a header that matches the update started
HeaderMatches(call, st) ==
    /\ ~call.data.null
    /\ call.length >= FIRMWARE_HEADER_SIZE
    /\ call.length <= st.total_size
    /\ HeaderOf(call.data.bytes).magic = OTA_MAGIC_NUMBER
    /\ HeaderOf(call.data.bytes).size = st.total_size
    /\ HeaderOf(call.data.bytes).crc32 = st.crc32

\* C23: after a successful StartUpdate(total_size, crc32), ReceiveData
\* accepts the first data packet when its header's magic, size and CRC match,
\* so that the documented flow StartUpdate, ReceiveData, CompleteUpdate can
\* reach the state Complete
C23_FirstPacketAccepted ==
    [][ (/\ ota_obs.op = "OtaManager_StartUpdate"
         /\ ota_obs.ret = 0
         /\ ota_obs'.op = "OtaManager_ReceiveData"
         /\ HeaderMatches(ota_obs', g_ota_state))
        => /\ ota_obs'.ret = 0
           /\ g_ota_state'.received_size = ota_obs'.length ]_vars


-----------------------------------------------------------------------------
(* Properties of the reconnect functions, continued *)

\* C24: an Execute call in Reconnecting with retryCount < maxRetry whose
\* reconnect action fails leaves retryCount and the transport's retry
\* statistic each exactly 1 greater than before the call, state Waiting and
\* delay 2000 (USB) or 3000 (BLE); one whose action succeeds leaves the
\* connect statistic 1 greater and state Idle; with retryCount >= maxRetry it
\* sets state Idle and changes no statistic
C24_ExecuteTransitions ==
    [][ /\ obs'.usbAct = "fail"
           => /\ g_reconnect_state'.usb_reconnect_retry
                    = g_reconnect_state.usb_reconnect_retry + 1
              /\ g_error_stats'.usb_reconnect_retry
                    = g_error_stats.usb_reconnect_retry + 1
              /\ g_reconnect_state'.usb_reconnect_state = 1
              /\ g_reconnect_state'.usb_reconnect_delay = 2000
        /\ obs'.bleAct = "fail"
           => /\ g_reconnect_state'.ble_reconnect_retry
                    = g_reconnect_state.ble_reconnect_retry + 1
              /\ g_error_stats'.ble_reconnect_retry
                    = g_error_stats.ble_reconnect_retry + 1
              /\ g_reconnect_state'.ble_reconnect_state = 1
              /\ g_reconnect_state'.ble_reconnect_delay = 3000
        /\ obs'.usbAct = "ok"
           => /\ g_error_stats'.usb_connect_count
                    = g_error_stats.usb_connect_count + 1
              /\ g_reconnect_state'.usb_reconnect_state = 0
        /\ obs'.bleAct = "ok"
           => /\ g_error_stats'.ble_connect_count
                    = g_error_stats.ble_connect_count + 1
              /\ g_reconnect_state'.ble_reconnect_state = 0
        /\ obs'.usbAct = "giveup"
           => /\ g_reconnect_state'.usb_reconnect_state = 0
              /\ g_error_stats' = g_error_stats
        /\ obs'.bleAct = "giveup"
           => /\ g_reconnect_state'.ble_reconnect_state = 0
              /\ g_error_stats' = g_error_stats ]_vars


\* C25: Poll(tickMs) called in Waiting with delay > tickMs leaves the delay
\* exactly tickMs smaller and the state Waiting; with delay <= tickMs it
\* leaves the state Reconnecting and does not run Execute in that call; the
\* 16-bit delay never wraps below zero; called in Idle it changes no field of
\* the instance unless a disconnect is detected and starts a reconnect
C25_PollCountdown ==
    [][ /\ (obs'.op = "USBReconnect_Poll"
            /\ g_reconnect_state.usb_reconnect_state = 1)
           => /\ IF g_reconnect_state.usb_reconnect_delay > obs'.arg
                 THEN /\ g_reconnect_state'.usb_reconnect_delay
                            = g_reconnect_state.usb_reconnect_delay - obs'.arg
                      /\ g_reconnect_state'.usb_reconnect_state = 1
                 ELSE /\ g_reconnect_state'.usb_reconnect_state = 2
                      /\ obs'.usbAct = "none"
                      /\ obs'.inits = 0
              /\ g_reconnect_state'.usb_reconnect_delay
                    <= g_reconnect_state.usb_reconnect_delay
        /\ (obs'.op = "BLEReconnect_Poll"
            /\ g_reconnect_state.ble_reconnect_state = 1)
           => /\ IF g_reconnect_state.ble_reconnect_delay > obs'.arg
                 THEN /\ g_reconnect_state'.ble_reconnect_delay
                            = g_reconnect_state.ble_reconnect_delay - obs'.arg
                      /\ g_reconnect_state'.ble_reconnect_state = 1
                 ELSE /\ g_reconnect_state'.ble_reconnect_state = 2
                      /\ obs'.bleAct = "none"
              /\ g_reconnect_state'.ble_reconnect_delay
                    <= g_reconnect_state.ble_reconnect_delay
        /\ (obs'.op = "USBReconnect_Poll"
            /\ g_reconnect_state.usb_reconnect_state = 0
            /\ ~obs'.started)
           => UsbFields(g_reconnect_state') = UsbFields(g_reconnect_state)
        /\ (obs'.op = "BLEReconnect_Poll"
            /\ g_reconnect_state.ble_reconnect_state = 0)
           => BleFields(g_reconnect_state') = BleFields(g_reconnect_state)
      ]_vars

\* A USB poll of 65535 ms found 2000 ms left and moved to Reconnecting
C25_Witness ==
    /\ obs.op = "USBReconnect_Poll"
    /\ obs.arg = 65535
    /\ g_reconnect_state.usb_reconnect_state = 2
    /\ g_reconnect_state.usb_reconnect_delay = 2000
    /\ obs.usbAct = "none"


\* C26: in every reachable state, each reconnect instance's retry count is at
\* most its maximum (3 for USB, 5 for BLE) and its state is Idle (0),
\* Waiting (1) or Reconnecting (2)
C26_RetryAndStateRange ==
    /\ g_reconnect_state.usb_reconnect_retry <= 3
    /\ g_reconnect_state.ble_reconnect_retry <= 5
    /\ g_reconnect_state.usb_reconnect_retry
          <= g_reconnect_state.usb_reconnect_max_retry
    /\ g_reconnect_state.ble_reconnect_retry
          <= g_reconnect_state.ble_reconnect_max_retry
    /\ g_reconnect_state.usb_reconnect_state \in {0, 1, 2}
    /\ g_reconnect_state.ble_reconnect_state \in {0, 1, 2}

\* The BLE instance has given up with its retry count at the maximum
C26_Witness ==
    /\ obs.bleAct = "giveup"
    /\ g_reconnect_state.ble_reconnect_retry = 5
    /\ g_reconnect_state.ble_reconnect_state = 0


-----------------------------------------------------------------------------
(* Properties of the watchdog, continued *)

\* C27: whenever Watchdog_Poll returns, safe mode is off; the accumulator is
\* 0 right after a feed of the enabled watchdog and right after a recovery;
\* and with ticks of at most 10 ms the accumulator, tick added, never exceeds
\* 10010, so that it never wraps its 16 bits
C27_WatchdogState ==
    [][ /\ obs'.op = "Watchdog_Poll"
           => /\ g_reconnect_state'.watchdog_safe_mode = 0
              /\ g_reconnect_state.watchdog_enabled # 0
                 => /\ g_reconnect_state.watchdog_timeout + obs'.arg <= 10010
                    /\ g_reconnect_state'.watchdog_timeout <= 10010
        /\ obs'.op = "Watchdog_Feed"
           => g_reconnect_state'.watchdog_timeout = 0
        /\ obs'.wdRec > 0
           => g_reconnect_state'.watchdog_timeout = 0 ]_vars

\* A 10 ms tick took the accumulator above 10000, recovery ran and the
\* accumulator is back at 0
C27_Witness ==
    /\ obs.op = "Watchdog_Poll"
    /\ obs.arg = 10
    /\ obs.wdRec = 1
    /\ wd_elapsed = 0
    /\ g_reconnect_state.watchdog_timeout = 0
    /\ g_reconnect_state.watchdog_safe_mode = 0


-----------------------------------------------------------------------------
(* Properties of the eviction step *)

\* C28: in a Poll Loop invocation whose eviction step finds the root device
\* status Disconnected, every valid slot is removed before the per-slot step,
\* slots added by discovery in the same invocation included: no IN
\* transaction is issued and the active count is 0; when the status is not
\* Disconnected the eviction step removes nothing
C28_EvictionPrecedesPolling ==
    [][ (IsPollCall /\ ~obs'.gated)
        => /\ obs'.evictAll
              => /\ \A i \in Slots : obs'.txn[i] = "none"
                 /\ obs'.polled = {}
                 /\ \A e \in 1 .. Len(obs'.log) : obs'.log[e][1] # "in"
                 /\ g_active_device_count' = 0
                 /\ \A i \in Slots : g_usb_devices'[i].is_valid = 0
           /\ ~obs'.evictAll
              => obs'.evicted = {} ]_vars

\* The first invocation added two slots by discovery and evicted both
C28_Witness ==
    /\ obs.op = "USB_Bridge_Poll"
    /\ polls = 1
    /\ obs.evictAll
    /\ Cardinality(obs.evicted) = 2
    /\ g_active_device_count = 0


-----------------------------------------------------------------------------
(* Properties of the hot-plug step *)

\* C29: a connect edge sets the new-device flag and a disconnect edge clears
\* it, and the settle step consumes the flag: every Poll Loop invocation that
\* passes the retry gate ends with the flag 0 and runs the root-device
\* initialisation once when it saw a connect edge, not at all when it saw a
\* disconnect edge, and otherwise only if the flag was pending at its start
C29_HotPlugFlag ==
    [][ (IsPollCall /\ ~obs'.gated)
        => /\ Bridge_NewDevFlag' = 0
           /\ obs'.reinit <= 1
           /\ obs'.edge = "connect" => obs'.reinit = 1
           /\ obs'.edge = "disconnect" => obs'.reinit = 0
           /\ obs'.edge = "none"
              => obs'.reinit = (IF Bridge_NewDevFlag # 0 THEN 1 ELSE 0) ]_vars

\* The second invocation saw a connect edge, as the first one had
C29_Witness ==
    /\ obs.op = "USB_Bridge_Poll"
    /\ polls = 2
    /\ obs.edge = "connect"
    /\ obs.reinit = 1
    /\ Bridge_NewDevFlag = 0


-----------------------------------------------------------------------------
(* Properties of the report translator, continued *)

\* The set bits of the bitmap whose keycode is one the translator may report
ReportableBits(buf, n) ==
    { q \in SetBits(buf, n) : KeycodeOf(q) > 3 /\ KeycodeOf(q) < 255 }

\* C30: for len > 8, up to 255, a set bit at byte i, bit b whose keycode
\* (i-2)*8+b+4 is 255 or more fills no key slot: the filled slots are as many
\* as there are set bits with a keycode from 4 to 254 (at most 6), and each
\* holds the keycode of such a bit
C30_NoWrappedKeycode ==
    (dec.called /\ dec.len > 8)
    => LET valid == ReportableBits(dec.in_buf, dec.len)
           filled == { k \in 2 .. 7 : At(dec.out_buf, k) # 0 }
       IN  /\ Cardinality(filled)
                 = (IF Cardinality(valid) < 6 THEN Cardinality(valid) ELSE 6)
           /\ \A k \in filled :
                 \E q \in valid : At(dec.out_buf, k) = KeycodeOf(q)

\* C31: a successful IN transaction whose receive length is 0 toggles the
\* slot's endpoint token, leaves the slot's report buffer and every other
\* field of the registry unchanged, calls neither BLE send (so no send can
\* fail), and USB_Bridge_ProcessDevice returns 0
C31_ZeroLengthRead ==
    [][( /\ obs'.op = "USB_Bridge_ProcessDevice"
         /\ obs'.arg \in Slots
         /\ obs'.txn[obs'.arg] = "ok"
         /\ obs'.lastIn.len = 0 ) =>
            LET i == obs'.arg IN
            /\ g_usb_devices' =
                   [g_usb_devices EXCEPT ![i].endpoint = Endpoint_SyncToggle(@)]
            /\ g_usb_devices'[i].endpoint # g_usb_devices[i].endpoint
            /\ g_usb_devices'[i].report_buffer = g_usb_devices[i].report_buffer
            /\ ~obs'.lastIn.ble
            /\ ~obs'.kbdFail /\ ~obs'.mouseFail
            /\ g_error_stats' = g_error_stats
            /\ obs'.ret = 0]_vars

\* a zero-length read on a slot that already holds a report
C31_Witness ==
    /\ obs.op = "USB_Bridge_ProcessDevice"
    /\ obs.arg \in Slots
    /\ obs.txn[obs.arg] = "ok"
    /\ obs.lastIn.len = 0
    /\ obs.ret = 0
    /\ g_usb_devices[obs.arg].report_buffer # Zeros(MAX_REPORT_SIZE)

RoundTripAdds == {1, 255} \X {DEV_TYPE_KEYBOARD, DEV_TYPE_MOUSE, 3} \X {0, 129}

\* C33: in every reachable registry state every invalid slot has all its
\* fields zero, and an add followed by a remove of the index the add
\* returned gives back exactly the registry before the add, active count
\* included
C33_InvalidSlotsZero ==
    LET reg == Registry(g_usb_devices, g_active_device_count) IN
    /\ \A i \in Slots :
           g_usb_devices[i].is_valid = 0 => g_usb_devices[i] = ZeroDevice
    /\ \A a \in RoundTripAdds :
           LET added == UsbDeviceManager_AddDevice(reg, a[1], a[2], a[3])
           IN  UsbDeviceManager_RemoveDevice(added[1], added[2]) = reg

\* slot 0 has been removed while a later slot, filled after it, holds a report
C33_Witness ==
    /\ obs.op = "UsbDeviceManager_RemoveDevice"
    /\ obs.arg = 0
    /\ g_usb_devices[0] = ZeroDevice
    /\ \E i \in Slots : /\ g_usb_devices[i].is_valid # 0
                        /\ g_usb_devices[i].report_buffer # Zeros(MAX_REPORT_SIZE)

\* C34: a step in which a USB reconnect attempt or a watchdog safe recovery
\* ran has re-run USB_Bridge_Init and ends with no valid slot, an active
\* count of 0 and both the pending-retry and the new-device flag 0; and the
\* slot handler called on a slot that is not registered issues no
\* transaction, sends nothing and returns 0, so a dropped device is served
\* again only once discovery has registered it again
C34_ReinitDropsDevices ==
    [][ /\ (obs'.usbAct \in {"ok", "fail"} \/ obs'.wdRec > 0) =>
            /\ obs'.inits >= 1
            /\ g_usb_devices' = UsbDeviceManager_Init.devs
            /\ g_active_device_count' = 0
            /\ kbd_send_pending' = 0
            /\ Bridge_NewDevFlag' = 0
        /\ ( /\ obs'.op = "USB_Bridge_ProcessDevice"
             /\ obs'.arg \in Slots
             /\ g_usb_devices[obs'.arg].is_valid = 0 ) =>
            /\ obs'.txn = NoTxn
            /\ ~obs'.lastIn.ble
            /\ obs'.ret = 0
            /\ g_usb_devices' = g_usb_devices ]_vars

\* a reconnect attempt that discarded a registered keyboard and mouse
C34_Witness ==
    /\ obs.op = "USBReconnect_Poll"
    /\ obs.usbAct = "fail"
    /\ obs.dropped = 2
    /\ g_active_device_count = 0

\* C35: a reconnect enable flag that is 0 stays 0 across every step other
\* than a SetEnable(1) call of the same instance
C35_EnableSticky ==
    [][ /\ ( /\ g_reconnect_state.usb_reconnect_enabled = 0
             /\ ~(obs'.op = "USBReconnect_SetEnable" /\ obs'.arg = 1) )
           => g_reconnect_state'.usb_reconnect_enabled = 0
        /\ ( /\ g_reconnect_state.ble_reconnect_enabled = 0
             /\ ~(obs'.op = "BLEReconnect_SetEnable" /\ obs'.arg = 1) )
           => g_reconnect_state'.ble_reconnect_enabled = 0 ]_vars

\* C36: under ticks of 1 ms Watchdog_SafeRecovery never runs: the watchdog
\* is not enabled and its accumulator stays 0, or it is enabled and the
\* accumulator stays below 1000 because the feed at 1000 resets it; the
\* timeout statistic stays 0
C36_NoSafeRecovery ==
    /\ obs.wdRec = 0
    /\ g_error_stats["watchdog_timeout_count"] = 0
    /\ \/ /\ g_reconnect_state.watchdog_enabled = 0
          /\ g_reconnect_state.watchdog_timeout = 0
       \/ /\ g_reconnect_state.watchdog_enabled = 1
          /\ g_reconnect_state.watchdog_timeout < 1000

\* the tick that takes the accumulator to 1000 and feeds the watchdog
C36_Witness ==
    /\ obs.op = "Watchdog_Poll"
    /\ obs.wdTick = BRIDGE_TICK_MS
    /\ obs.wdReset
    /\ g_reconnect_state.watchdog_enabled = 1
    /\ g_reconnect_state.watchdog_timeout = 0

\* C37: OtaManager_StartUpdate with total_size 0 or above 65536, or called
\* in a state other than Idle, returns 1 and leaves the OTA state and the
\* stored header as they were; a StartUpdate that returns 0 was called in
\* Idle, and only CancelUpdate and Init take a state other than Idle to Idle
C37_StartUpdateRejected ==
    [][ /\ ( /\ ota_obs'.op = "OtaManager_StartUpdate"
             /\ \/ ota_obs'.total_size = 0
                \/ ota_obs'.total_size > 65536
                \/ g_ota_state.state # OTA_STATE_IDLE )
           => /\ ota_obs'.ret = 1
              /\ g_ota_state' = g_ota_state
              /\ g_firmware_header' = g_firmware_header
        /\ (ota_obs'.op = "OtaManager_StartUpdate" /\ ota_obs'.ret = 0)
           => g_ota_state.state = OTA_STATE_IDLE
        /\ ( /\ g_ota_state.state # OTA_STATE_IDLE
             /\ g_ota_state'.state = OTA_STATE_IDLE )
           => ota_obs'.op \in {"OtaManager_CancelUpdate", "OtaManager_Init"}
      ]_vars

\* a StartUpdate with a valid size, refused because an update is in progress
\* and leaving that update's size in place
C37_Witness ==
    /\ ota_obs.op = "OtaManager_StartUpdate"
    /\ ota_obs.ret = 1
    /\ ota_obs.total_size \in 1 .. 65536
    /\ g_ota_state.state = OTA_STATE_CHECKING
    /\ g_ota_state.total_size # ota_obs.total_size

====
